---------------------------- MODULE Spec2Model ----------------------------
(***************************************************************************)
(* A model of the SharePoint MCP server's token lifecycle                  *)
(* (auth/sharepoint_auth.py) and of its Graph API client                   *)
(* (utils/graph_client.py).                                                *)
(*                                                                         *)
(* Text is modelled as a sequence of tokens (each token a TLA+ string), so *)
(* that Python's `in` on strings is a search for a contiguous run of       *)
(* tokens and an f-string is a concatenation.  A dict whose keys may be    *)
(* absent is a function whose DOMAIN holds the keys that are present.      *)
(***************************************************************************)
EXTENDS Integers, Sequences, FiniteSets, TLC

VARIABLES
    config,      \* SHAREPOINT_CONFIG, read from the environment at import
    now,         \* the wall clock, datetime.now()
    ctx,         \* the shared SharePointContext (access_token, token_expiry)
    cacheFile,   \* the file TOKEN_CACHE_FILE
    client,      \* the GraphClient built on ctx, when one exists
    drive,       \* the remote document library: the paths of its folders
    ret,         \* what the last operation returned or raised
    sent,        \* the HTTP requests the last operation issued, in order
    log,         \* the diagnostics the last operation logged, in order
    tasks,       \* the handler coroutines of the event loop: where each is
    running,     \* the coroutine the event loop is running, 0 for none
    lifespan     \* the sharepoint_lifespan generator: where it is suspended

vars ==
    <<config, now, ctx, cacheFile, client, drive, ret, sent, log, tasks, running,
      lifespan>>

-----------------------------------------------------------------------------
(* Bounds of the model *)

\* the clock runs from 0 to MaxTime
MaxTime == 3

\* the handler coroutines the event loop holds at a time
MaxTasks == 2

Tasks == 1..MaxTasks

\* a handler that is not running: no call in progress.  new is the context
\* its get_auth_context returned, seen the context it last read, called the
\* context it was called with.
IdleTask == [pc |-> "idle", new |-> << >>, seen |-> << >>, called |-> << >>]

\* no handler has been called
NoTasks == [t \in Tasks |-> IdleTask]

\* the lifespan generator before its first step: yields is the contexts it
\* has yielded, in order, finally the number of times its finally block
\* ran, raised the exception that left the context manager
NotStarted ==
    [pc |-> "created", yields |-> << >>, finally |-> 0, raised |-> ""]

-----------------------------------------------------------------------------
(* Text helpers *)

\* Python's `sub in s` for strings: sub occurs in s as a contiguous run
Contains(s, sub) ==
    \E i \in 0..(Len(s) - Len(sub)) :
        \A j \in 1..Len(sub) : s[i + j] = sub[j]

\* dict.get(key, default)
Get(d, key, default) == IF key \in DOMAIN d THEN d[key] ELSE default

\* an empty dict
EmptyDict == << >>

-----------------------------------------------------------------------------
(* SharePointContext *)

\* token_expiry is None, or a timestamp
None == << >>
At(t) == <<t>>

GraphUrl == "https://graph.microsoft.com/v1.0"

Context(token, expiry) == [access_token |-> token, token_expiry |-> expiry]

\* SharePointContext.headers
Headers(c) ==
    ("Authorization" :> ("Bearer " \o c.access_token))
        @@ ("Content-Type" :> "application/json")

IsTokenValidInverted(c, t) ==
    IF c.token_expiry = None THEN FALSE ELSE t > c.token_expiry[1]

\* SharePointContext.is_token_valid, at wall-clock time t
IsTokenValid(c, t) ==
    IF c.token_expiry = None THEN FALSE ELSE t < c.token_expiry[1]


-----------------------------------------------------------------------------
(* Configuration *)

RequiredKeys == <<"tenant_id", "client_id", "client_secret", "site_url">>

\* A site URL, as its tokens: the scheme, the labels of the host, and the
\* slashes and segments of the path
GoodSiteUrl == <<"https://", "contoso", ".sharepoint.com", "/", "sites", "/", "Eng">>
InsecureSiteUrl == <<"http://", "contoso", ".sharepoint.com", "/", "sites", "/", "Eng">>

ConfigWith(secret, url) ==
    [tenant_id |-> <<"tenant">>, client_id |-> <<"client">>,
     client_secret |-> secret, site_url |-> url]

\* The configurations the model starts from: complete, without CLIENT_SECRET,
\* and with an insecure site URL
Configs ==
    { ConfigWith(<<"secret">>, GoodSiteUrl),
      ConfigWith(<< >>, GoodSiteUrl),
      ConfigWith(<<"secret">>, InsecureSiteUrl) }

\* str.startswith
StartsWith(s, prefix) ==
    /\ Len(s) >= Len(prefix)
    /\ \A j \in 1..Len(prefix) : s[j] = prefix[j]

MissingVarsFirstOnly(cfg) ==
    LET all == SelectSeq(RequiredKeys, LAMBDA k : cfg[k] = << >>)
    IN  IF all = << >> THEN << >> ELSE <<Head(all)>>

\* the keys validate_config collects in missing_vars, in order
MissingVars(cfg) ==
    SelectSeq(RequiredKeys, LAMBDA k : cfg[k] = << >>)

\* ', '.join(names)
RECURSIVE JoinComma(_)
JoinComma(names) ==
    IF names = << >> THEN << >>
    ELSE IF Tail(names) = << >> THEN names
    ELSE <<Head(names), ", ">> \o JoinComma(Tail(names))

\* str.lower(), token by token
LowerToken(t) ==
    CASE t = ".SharePoint.com" -> ".sharepoint.com"
      [] t = "Contoso" -> "contoso"
      [] t = "HTTPS://" -> "https://"
      [] OTHER -> t

Lower(s) == [i \in DOMAIN s |-> LowerToken(s[i])]

\* `".sharepoint.com/" not in site_url.lower()`
LacksSharePointDomain(url) == ~Contains(Lower(url), <<".sharepoint.com", "/">>)

ValidateConfigLenient(cfg) == << >>

\* validate_config: the ValueError's message, or << >> when it returns
ValidateConfig(cfg) ==
    IF MissingVars(cfg) # << >>
    THEN <<"Missing required configuration: ">> \o JoinComma(MissingVars(cfg))
    ELSE IF \/ ~StartsWith(cfg.site_url, <<"https://">>)
            \/ LacksSharePointDomain(cfg.site_url)
         THEN <<"Invalid SharePoint site URL: ">> \o cfg.site_url
         ELSE << >>

\* config_checker.check_config, given an .env file: the environment variable
\* of a key
EnvVar(key) ==
    CASE key = "tenant_id" -> "TENANT_ID"
      [] key = "client_id" -> "CLIENT_ID"
      [] key = "client_secret" -> "CLIENT_SECRET"
      [] key = "site_url" -> "SITE_URL"

\* check_config: the error it prints (it then returns False), or << >> when
\* it returns True
CheckConfig(cfg) ==
    LET missing == MissingVars(cfg)
    IN  IF missing # << >>
        THEN <<"Missing required environment variables: ">>
                 \o JoinComma([i \in DOMAIN missing |-> EnvVar(missing[i])])
        ELSE IF \/ ~StartsWith(cfg.site_url, <<"https://">>)
                \/ LacksSharePointDomain(cfg.site_url)
             THEN <<"Invalid SharePoint site URL: ">> \o cfg.site_url
             ELSE << >>

-----------------------------------------------------------------------------
(* The token cache file and the identity provider *)

\* the tokens the identity provider issues
IssuedTokens == {"tokA", "tokB"}

\* timedelta(seconds=result.get("expires_in", 3600))
DefaultExpiresIn == 3600

\* the lifetimes the identity provider states, in clock ticks
Lifetimes == {2}

\* The file does not exist
NoFile == [exists |-> FALSE, valid |-> FALSE, account |-> FALSE, token |-> ""]

\* A file holding a serialized cache (valid), or text that does not
\* deserialize (not valid)
CacheBlob(valid, account, token) ==
    [exists |-> TRUE, valid |-> valid, account |-> account, token |-> token]

\* open(..., 'w') truncated the file and the write failed
TruncatedFile == CacheBlob(TRUE, FALSE, "")

\* acquire_token_silent found nothing
NoResult == [none |-> TRUE]

TokenResults ==
    { [access_token |-> t, expires_in |-> e] : t \in IssuedTokens, e \in Lifetimes }
        \cup { [access_token |-> t] : t \in {"tokA"} }

ErrorResults ==
    { [error |-> "invalid_client"],
      [error |-> "invalid_client",
       error_description |-> "AADSTS70011: application not found"],
      EmptyDict }

SilentResults == {NoResult, [access_token |-> "tokB", expires_in |-> 2]}

\* what the identity provider, the file system and the remote site may answer
\* in one call of get_auth_context
AuthEnvs ==
    { [silent |-> s, full |-> f, write |-> w, write_test |-> wt] :
        s \in SilentResults,
        f \in TokenResults \cup ErrorResults,
        w \in {"ok", "open_fails", "write_fails"},
        wt \in {"failed", "created_deleted", "created_left"} }

\* the same, when the remote site deletes every test folder it is asked to
CleanAuthEnvs == { env \in AuthEnvs : env.write_test # "created_left" }

\* `not result`: None and the empty dict are falsy
Falsy(result) == result = NoResult \/ result = EmptyDict

\* the in-memory cache after the load: the file's content when it exists and
\* deserializes, otherwise empty
LoadedCache(file) ==
    IF file.exists /\ file.valid
    THEN [account |-> file.account, token |-> file.token]
    ELSE [account |-> FALSE, token |-> ""]

\* the folder test_write_permissions creates under the drive's root, named
\* after the time of the call
TestFolder(t) == <<"test-folder-" \o ToString(t)>>

-----------------------------------------------------------------------------
(* get_auth_context *)

AcquireTokenAlwaysFull(cache, env) ==
    [calls |-> (IF cache.account THEN <<"acquire_token_silent">> ELSE << >>)
                   \o <<"acquire_token_for_client">>,
     result |-> env.full]

\* the token request: silent acquisition when the cache holds an account,
\* the client-credential request when that gave nothing.  The calls made to
\* the identity provider, in order, and the result.
AcquireToken(cache, env) ==
    LET silent == IF cache.account THEN env.silent ELSE NoResult
        calls1 == IF cache.account THEN <<"acquire_token_silent">> ELSE << >>
    IN  IF Falsy(silent)
        THEN [calls |-> calls1 \o <<"acquire_token_for_client">>, result |-> env.full]
        ELSE [calls |-> calls1, result |-> silent]

\* `"access_token" in result`
TokenAcquired(result) == "access_token" \in DOMAIN result

AuthErrorMessageGeneric(result) == <<"Authentication failed">>

\* the message of the exception raised when no token was acquired
AuthErrorMessage(result) ==
    <<"Authentication failed: ", Get(result, "error", "unknown"),
      " - ", Get(result, "error_description", "Unknown error")>>

\* the cache file after the save: best effort
SaveCache(file, cache, result, env) ==
    CASE env.write = "ok" -> CacheBlob(TRUE, cache.account, result.access_token)
      [] env.write = "open_fails" -> file
      [] env.write = "write_fails" -> TruncatedFile

FileOnFailureSavedFirst(file, cache, result, env) ==
    CacheBlob(TRUE, cache.account, Get(result, "access_token", ""))

\* the cache file when the token request failed: the raise comes before the
\* save, so the file is as it was
FileOnFailure(file, cache, result, env) == file

\* datetime.now() + timedelta(seconds=result.get("expires_in", 3600))
Expiry(result, t) == At(t + Get(result, "expires_in", DefaultExpiresIn))

\* the drive after test_write_permissions: the test folder stays when the
\* delete was refused (a warning) or raised (caught by the method)
DriveAfterWriteTest(drv, env, t) ==
    IF env.write_test \in {"created_left", "delete_raises"}
    THEN drv \cup {TestFolder(t)}
    ELSE drv

\* `except Exception as e:` followed by a log line only: whatever the body
\* raised ("" when it raised nothing) is swallowed
Caught(exc) == ""

LoadCacheUncaught(file) == IF file.exists /\ ~file.valid THEN "JSONDecodeError" ELSE ""

SaveCacheUncaught(env) == IF env.write = "ok" THEN "" ELSE "OSError"

TestConnectionUncaught(env) ==
    IF Get(env, "conn", "200") = "raises" THEN "ConnectionError" ELSE ""

\* the exception that leaves the block loading the cache file (lines 223-234)
LoadCacheRaised(file) ==
    Caught(IF file.exists /\ ~file.valid THEN "JSONDecodeError" ELSE "")

\* the exception that leaves the block saving the cache file (lines 280-285)
SaveCacheRaised(env) == Caught(IF env.write = "ok" THEN "" ELSE "OSError")

\* the exception that leaves decode_and_log_token_permissions: a token that
\* is not three dot-separated parts is logged and returned from, a payload
\* that does not decode raises inside the method's try
DecodeRaised(env) ==
    Caught(IF Get(env, "decode", "ok") = "raises" THEN "JSONDecodeError"
           ELSE "")

\* the exception that leaves test_connection: the request may raise, and any
\* status other than 200 makes it return False
TestConnectionRaised(env) ==
    Caught(IF Get(env, "conn", "200") = "raises" THEN "ConnectionError" ELSE "")

\* the exception that leaves test_write_permissions
TestWritePermissionsRaised(env) ==
    Caught(IF env.write_test \in {"raises", "delete_raises"}
           THEN "ConnectionError" ELSE "")

\* the Graph requests of test_connection and test_write_permissions, in
\* order: the site lookup of each and, when the write test got as far as
\* creating its folder, the drive listing, the create and the delete
DiagnosticRequests(env) ==
    <<"GET site", "GET site">>
        \o (IF env.write_test \in {"created_deleted", "created_left",
                                   "delete_raises"}
            THEN <<"GET drives", "POST children", "DELETE item">>
            ELSE << >>)

\* the first exception that leaves the diagnostics run after the context was
\* built (lines 297-310), "" when none does
DiagnosticsRaised(env) ==
    IF DecodeRaised(env) # "" THEN DecodeRaised(env)
    ELSE IF TestConnectionRaised(env) # "" THEN TestConnectionRaised(env)
    ELSE TestWritePermissionsRaised(env)

\* get_auth_context(), called at time t: what it raised (raised, message) or
\* returned (value = <<context>>), the cache file and the drive after it, the
\* calls it made to the identity provider and the accesses to the cache file
GetAuthContext(cfg, file, drv, env, t) ==
    LET invalid == ValidateConfig(cfg)
        cache == LoadedCache(file)
        reads == IF file.exists THEN <<"read">> ELSE << >>
        got == AcquireToken(cache, env)
    IN  IF invalid # << >>
        THEN [raised |-> "ValueError", message |-> invalid, value |-> << >>,
              file |-> file, drive |-> drv, idp |-> << >>, io |-> << >>,
              graph |-> << >>, result |-> NoResult]
        ELSE IF LoadCacheRaised(file) # ""
        THEN [raised |-> LoadCacheRaised(file),
              message |-> <<LoadCacheRaised(file)>>, value |-> << >>,
              file |-> file, drive |-> drv, idp |-> << >>, io |-> reads,
              graph |-> << >>, result |-> NoResult]
        ELSE IF ~TokenAcquired(got.result)
        THEN [raised |-> "Exception", message |-> AuthErrorMessage(got.result),
              value |-> << >>,
              file |-> FileOnFailure(file, cache, got.result, env),
              drive |-> drv, idp |-> got.calls, io |-> reads,
              graph |-> << >>, result |-> got.result]
        ELSE IF SaveCacheRaised(env) # ""
        THEN [raised |-> SaveCacheRaised(env),
              message |-> <<SaveCacheRaised(env)>>, value |-> << >>,
              file |-> SaveCache(file, cache, got.result, env),
              drive |-> drv, idp |-> got.calls, io |-> reads \o <<"write">>,
              graph |-> << >>, result |-> got.result]
        ELSE IF DiagnosticsRaised(env) # ""
        THEN [raised |-> DiagnosticsRaised(env),
              message |-> <<DiagnosticsRaised(env)>>, value |-> << >>,
              file |-> SaveCache(file, cache, got.result, env),
              drive |-> DriveAfterWriteTest(drv, env, t),
              idp |-> got.calls, io |-> reads \o <<"write">>,
              graph |-> DiagnosticRequests(env), result |-> got.result]
        ELSE [raised |-> "", message |-> << >>,
              value |-> <<Context(got.result.access_token,
                                  Expiry(got.result, t))>>,
              file |-> SaveCache(file, cache, got.result, env),
              drive |-> DriveAfterWriteTest(drv, env, t),
              idp |-> got.calls, io |-> reads \o <<"write">>,
              graph |-> DiagnosticRequests(env), result |-> got.result]

-----------------------------------------------------------------------------
(* GraphClient: the headers of a request *)

NoClient == [exists |-> FALSE, made_with |-> "", base_url |-> ""]

\* GraphClient.__init__: the client keeps a reference to the context.
\* made_with records the token the context held at that time; base_url is
\* the context's graph_url, which every context has by default.
NewClient(c) ==
    [exists |-> TRUE, made_with |-> c.access_token, base_url |-> GraphUrl]

RequestHeadersFromInit(cl, c) == Headers(Context(cl.made_with, None))

\* `headers = self.context.headers`, read from the shared context at the
\* time of each request
RequestHeaders(cl, c) == Headers(c)

-----------------------------------------------------------------------------
(* The operations on the shared context *)

\* the clock advances
Tick ==
    /\ now < MaxTime
    /\ now' = now + 1
    /\ UNCHANGED <<lifespan, tasks, running, config, ctx, cacheFile, client, drive, ret, sent, log>>

\* context.is_token_valid()
CallIsTokenValid ==
    /\ ret' = [op |-> "is_token_valid", value |-> IsTokenValid(ctx, now),
               self |-> ctx, at |-> now]
    /\ sent' = << >>
    /\ log' = << >>
    /\ UNCHANGED <<lifespan, tasks, running, config, now, ctx, cacheFile, client, drive>>

\* context.headers
CallHeaders ==
    /\ ret' = [op |-> "headers", value |-> Headers(ctx), self |-> ctx]
    /\ sent' = << >>
    /\ log' = << >>
    /\ UNCHANGED <<lifespan, tasks, running, config, now, ctx, cacheFile, client, drive>>

\* await get_auth_context(), by a caller that keeps the context for itself
CallGetAuthContext ==
    \E env \in AuthEnvs :
        LET out == GetAuthContext(config, cacheFile, drive, env, now)
        IN  /\ ret' = [op |-> "get_auth_context", out |-> out,
                       file_before |-> cacheFile, silent |-> env.silent,
                       write |-> env.write, at |-> now]
            /\ cacheFile' = out.file
            /\ drive' = out.drive
            /\ sent' = << >>
            /\ log' = << >>
            /\ UNCHANGED <<lifespan, tasks, running, config, now, ctx, client>>

\* context.access_token = new_context.access_token
AssignToken(c, new) == [c EXCEPT !.access_token = new.access_token]

\* context.token_expiry = new_context.token_expiry
AssignExpiry(c, new) == [c EXCEPT !.token_expiry = new.token_expiry]

RefreshAssignTokenOnly(c, new) == AssignToken(c, new)

\* refresh_token_if_needed: the two assignments that update the context
RefreshAssign(c, new) == AssignExpiry(AssignToken(c, new), new)

RefreshAlways(c, cfg, file, drv, env, t) ==
    LET out == GetAuthContext(cfg, file, drv, env, t)
    IN  [called |-> TRUE, raised |-> out.raised, out |-> out,
         ctx |-> IF out.raised = "" THEN RefreshAssign(c, out.value[1]) ELSE c]

RefreshClearingOnFailure(c, cfg, file, drv, env, t) ==
    IF IsTokenValid(c, t)
    THEN [called |-> FALSE, raised |-> "", ctx |-> c]
    ELSE LET out == GetAuthContext(cfg, file, drv, env, t)
         IN  [called |-> TRUE, raised |-> out.raised, out |-> out,
              ctx |-> IF out.raised = ""
                      THEN RefreshAssign(c, out.value[1])
                      ELSE Context("", None)]

\* refresh_token_if_needed(context) at time t, with the environment answering
\* env: whether get_auth_context was called and what it did (out), what the
\* call raised, and the context after it
Refresh(c, cfg, file, drv, env, t) ==
    IF IsTokenValid(c, t)
    THEN [called |-> FALSE, raised |-> "", ctx |-> c]
    ELSE LET out == GetAuthContext(cfg, file, drv, env, t)
         IN  [called |-> TRUE, raised |-> out.raised, out |-> out,
              ctx |-> IF out.raised = ""
                      THEN RefreshAssign(c, out.value[1])
                      ELSE c]

\* await refresh_token_if_needed(context), on the shared context, with the
\* environment answering from envs
RefreshWith(envs) ==
    /\ sent' = << >>
    /\ log' = << >>
    /\ \E env \in envs :
        LET r == Refresh(ctx, config, cacheFile, drive, env, now)
        IN  /\ ret' = IF r.called
                      THEN [op |-> "refresh_token_if_needed",
                            refreshed |-> r.raised = "", raised |-> r.raised,
                            ctx_before |-> ctx, at |-> now, out |-> r.out]
                      ELSE [op |-> "refresh_token_if_needed",
                            refreshed |-> FALSE, raised |-> "",
                            ctx_before |-> ctx, at |-> now]
            /\ ctx' = r.ctx
            /\ cacheFile' = IF r.called THEN r.out.file ELSE cacheFile
            /\ drive' = IF r.called THEN r.out.drive ELSE drive
            /\ UNCHANGED <<lifespan, tasks, running, config, now, client>>

RefreshTokenIfNeeded == RefreshWith(CleanAuthEnvs)

\* graph_client = GraphClient(context)
CreateClient ==
    /\ ~client.exists
    /\ client' = NewClient(ctx)
    /\ ret' = [op |-> "GraphClient"]
    /\ sent' = << >>
    /\ log' = << >>
    /\ UNCHANGED <<lifespan, tasks, running, config, now, ctx, cacheFile, drive>>

-----------------------------------------------------------------------------
(* GraphClient: the verb primitives *)

\* A response is [status_code, text, json]: the raw body, and <<document>>
\* when the body is a JSON document (response.json() returns it) or << >>
\* when it is not (response.json() raises).
Response(status, body) ==
    [status_code |-> status, text |-> body.text, json |-> body.json]

\* str.lstrip('/')
RECURSIVE LStripSlash(_)
LStripSlash(s) ==
    IF s # << >> /\ Head(s) = "/" THEN LStripSlash(Tail(s)) ELSE s

\* f"{self.base_url}/{endpoint.lstrip('/')}"
Url(endpoint) == <<client.base_url, "/">> \o LStripSlash(endpoint)

Request(method, endpoint, headers) ==
    [method |-> method, url |-> Url(endpoint), headers |-> headers]

GraphErrorMessageNoStatus(resp) == <<"Graph API error: ", " - ">> \o resp.text

\* f"Graph API error: {response.status_code} - {error_text}"
GraphErrorMessage(resp) ==
    <<"Graph API error: ", ToString(resp.status_code), " - ">> \o resp.text

ClaimsMarker == <<"scp", "or", "roles", "claim">>

AuthErrorLine == <<"Authentication or authorization error detected">>
ClaimsLine == <<"Token does not have required claims (scp or roles)">>
ClaimsAdviceLine == <<"Please check application permissions in Azure AD">>

AuthDiagnosticsOnAny401(resp) ==
    IF resp.status_code \in {401, 403}
    THEN <<AuthErrorLine, ClaimsLine, ClaimsAdviceLine>>
    ELSE << >>

\* the lines logged for a 401 or 403, in get and in post
AuthDiagnostics(resp) ==
    IF resp.status_code \in {401, 403}
    THEN <<AuthErrorLine>> \o
         (IF Contains(resp.text, ClaimsMarker)
          THEN <<ClaimsLine, ClaimsAdviceLine>>
          ELSE << >>)
    ELSE << >>

\* raise Exception(...)
Raise(resp, lines) ==
    [raised |-> "Exception", message |-> GraphErrorMessage(resp),
     value |-> << >>, parsed |-> FALSE,
     log |-> <<GraphErrorMessage(resp)>> \o lines]

\* return response.json(): the document, or the decoder's exception
ReturnJson(resp) ==
    IF resp.json = << >>
    THEN [raised |-> "JSONDecodeError", message |-> << >>, value |-> << >>,
          parsed |-> TRUE, log |-> << >>]
    ELSE [raised |-> "", message |-> << >>, value |-> resp.json,
          parsed |-> TRUE, log |-> << >>]

\* return {"status": "success"}
StatusSuccess == [status |-> "success"]

ReturnSuccess ==
    [raised |-> "", message |-> << >>, value |-> <<StatusSuccess>>,
     parsed |-> FALSE, log |-> << >>]

GetAccepted == {200}
PostAcceptedWith204 == {200, 201, 204}
PostAccepted == {200, 201}
PatchAccepted == {200, 201, 204}
DeleteAccepted == {200, 201, 204}
UploadAccepted == {200, 201, 204}

GetResultSynthetic(resp) ==
    IF resp.status_code \notin GetAccepted
    THEN Raise(resp, AuthDiagnostics(resp))
    ELSE ReturnSuccess

\* GraphClient.get, given the response
GetResult(resp) ==
    IF resp.status_code \notin GetAccepted
    THEN Raise(resp, AuthDiagnostics(resp))
    ELSE ReturnJson(resp)

\* GraphClient.post, given the response
PostResult(resp) ==
    IF resp.status_code \notin PostAccepted
    THEN Raise(resp, AuthDiagnostics(resp))
    ELSE ReturnJson(resp)

PatchResultAlwaysParsing(resp) ==
    IF resp.status_code \notin PatchAccepted
    THEN Raise(resp, << >>)
    ELSE ReturnJson(resp)

\* GraphClient.patch, given the response
PatchResult(resp) ==
    IF resp.status_code \notin PatchAccepted
    THEN Raise(resp, << >>)
    ELSE IF resp.status_code = 204 THEN ReturnSuccess ELSE ReturnJson(resp)

\* GraphClient.delete, given the response
DeleteResult(resp) ==
    IF resp.status_code \notin DeleteAccepted
    THEN Raise(resp, << >>)
    ELSE ReturnSuccess

\* GraphClient.upload_file, given the response
UploadResult(resp) ==
    IF resp.status_code \notin UploadAccepted
    THEN Raise(resp, << >>)
    ELSE IF resp.status_code = 204 THEN ReturnSuccess ELSE ReturnJson(resp)

-----------------------------------------------------------------------------
(* The remote API's answers to a single request *)

Statuses == {200, 201, 202, 204, 400, 401, 403, 404}

\* JSON documents, nested
JsonDocs ==
    { [value |-> <<"test_data">>],
      [id |-> "new_item_id",
       fields |-> [Title |-> "t", tags |-> <<"a", "b">>]],
      [value |-> <<[id |-> "1", folder |-> [childCount |-> 0]], [id |-> "2"]>>] }

JsonBody(doc) == [text |-> <<"{", "json", "}">>, json |-> <<doc>>]

\* bodies that are no JSON document: empty, plain text, and error texts with
\* and without the missing-claims marker
EmptyBody == [text |-> << >>, json |-> << >>]
TextBodies ==
    { EmptyBody,
      [text |-> <<"Not", "Found">>, json |-> << >>],
      [text |-> <<"Either", "scp", "or", "roles", "claim", "need", "to", "be",
                  "present">>, json |-> << >>],
      [text |-> <<"scp", "or", "claim", "roles">>, json |-> << >>] }

Bodies == { JsonBody(d) : d \in JsonDocs } \cup TextBodies

Responses == { Response(st, b) : st \in Statuses, b \in Bodies }

Endpoints == { <<"endpoint", "/", "test">>, <<"/", "endpoint", "/", "test">> }

ContentTypes == {"", "text/plain"}

\* upload_file: a copy of the headers, with the content type when given
UploadHeaders(h, content_type) ==
    IF content_type # "" THEN [h EXCEPT !["Content-Type"] = content_type] ELSE h

-----------------------------------------------------------------------------
(* The verb primitives as operations of the client *)

VerbRetryingOn401(op, method, endpoint, headers, resp, out) ==
    /\ client.exists
    /\ sent' = IF resp.status_code = 401
               THEN <<Request(method, endpoint, headers),
                      Request(method, endpoint, headers)>>
               ELSE <<Request(method, endpoint, headers)>>
    /\ ret' = [op |-> op, resp |-> resp, out |-> out, idp |-> << >>]
    /\ log' = out.log
    /\ UNCHANGED <<lifespan, tasks, running, config, now, ctx, cacheFile, client, drive>>

\* one request is sent, the response decides the outcome; idp is the calls
\* made to the identity provider: none
Verb(op, method, endpoint, headers, resp, out) ==
    /\ client.exists
    /\ sent' = <<Request(method, endpoint, headers)>>
    /\ ret' = [op |-> op, resp |-> resp, out |-> out, idp |-> << >>]
    /\ log' = out.log
    /\ UNCHANGED <<lifespan, tasks, running, config, now, ctx, cacheFile, client, drive>>

GetWith(endpoints, responses) ==
    \E ep \in endpoints, resp \in responses :
        Verb("get", "GET", ep, RequestHeaders(client, ctx), resp, GetResult(resp))

DoGet == GetWith(Endpoints, Responses)

\* a GET of the client, answered 200 with a document or 401
ClientGet ==
    GetWith({<<"sites", "/", "root">>},
            { Response(200, JsonBody([value |-> <<"test_data">>])),
              Response(401, EmptyBody) })

DoPost ==
    \E ep \in Endpoints, resp \in Responses :
        Verb("post", "POST", ep, RequestHeaders(client, ctx), resp,
             PostResult(resp))

DoPatch ==
    \E ep \in Endpoints, resp \in Responses :
        Verb("patch", "PATCH", ep, RequestHeaders(client, ctx), resp,
             PatchResult(resp))

DoDelete ==
    \E ep \in Endpoints, resp \in Responses :
        Verb("delete", "DELETE", ep, RequestHeaders(client, ctx), resp,
             DeleteResult(resp))

DoUpload ==
    \E ep \in Endpoints, resp \in Responses, ct \in ContentTypes :
        Verb("upload_file", "PUT", ep,
             UploadHeaders(RequestHeaders(client, ctx), ct), resp,
             UploadResult(resp))

-----------------------------------------------------------------------------
(* The remote document library *)

SiteId == "site-1"
DriveId == "drive-1"

\* str.split('/'): the segments between the slashes, "" for an empty one
RECURSIVE SplitSlash(_)
SplitSlash(s) ==
    IF s = << >> THEN <<"">>
    ELSE LET rest == SplitSlash(Tail(s))
         IN  IF Head(s) = "/"
             THEN <<"">> \o rest
             ELSE <<Head(s) \o Head(rest)>> \o Tail(rest)

\* "/".join(parts)
RECURSIVE JoinSlash(_)
JoinSlash(parts) ==
    IF parts = << >> THEN << >>
    ELSE (IF Head(parts) = "" THEN << >> ELSE <<Head(parts)>>)
         \o (IF Tail(parts) = << >> THEN << >> ELSE <<"/">> \o JoinSlash(Tail(parts)))

\* f"sites/{site_id}/drives/{drive_id}/root:/{current_path}"
ItemEndpoint(cur) == <<"sites/", SiteId, "/drives/", DriveId, "/root:/">> \o cur

\* f"sites/{site_id}/drives/{drive_id}/root/children"
RootChildrenEndpoint == <<"sites/", SiteId, "/drives/", DriveId, "/root/children">>

\* f"sites/{site_id}/drives/{drive_id}/root:/{parent_path}:/children"
ChildrenEndpoint(parent) == ItemEndpoint(parent) \o <<":/children">>

\* the body of the create request
FolderData(name) ==
    [name |-> name, folder |-> EmptyDict, conflictBehavior |-> "rename"]

\* The remote resolves the path text after "root:/" to a folder: the sequence
\* of its segments; a text with an empty segment names no item
ItemPath(text) == SplitSlash(text)

WellFormed(path) == \A i \in 1..Len(path) : path[i] # ""

\* the name the remote gives a new child under conflictBehavior "rename":
\* the name asked for when it is free, otherwise the name with the first free
\* number appended
NameUnderRename(drv, parent, name) ==
    IF parent \o <<name>> \notin drv THEN name
    ELSE LET Free(k) == parent \o <<name \o " " \o ToString(k)>> \notin drv
             k == CHOOSE n \in 1..(Cardinality(drv) + 1) :
                      Free(n) /\ \A m \in 1..(n - 1) : ~Free(m)
         IN  name \o " " \o ToString(k)

ItemDoc(path) == [name |-> path[Len(path)], folder |-> EmptyDict]

ServiceUnavailable == Response(503, [text |-> <<"Service", "Unavailable">>, json |-> << >>])
ItemNotFound == Response(404, [text |-> <<"itemNotFound">>, json |-> << >>])

\* the remote's answer to GET root:/{path}; answer "error" is a failure that
\* says nothing about the item (throttling, an outage)
RemoteGetItem(drv, text, answer) ==
    IF answer = "error" THEN ServiceUnavailable
    ELSE IF WellFormed(ItemPath(text)) /\ ItemPath(text) \in drv
    THEN Response(200, JsonBody(ItemDoc(ItemPath(text))))
    ELSE ItemNotFound

\* the remote's answer to POST .../children with the body data, and the drive
\* after it: parent is the folder the endpoint names (<< >> is the root)
RemoteCreateChild(drv, parent, data, answer) ==
    IF answer = "error" THEN [resp |-> ServiceUnavailable, drive |-> drv]
    ELSE IF ~WellFormed(parent) \/ (parent # << >> /\ parent \notin drv)
    THEN [resp |-> ItemNotFound, drive |-> drv]
    ELSE LET name == NameUnderRename(drv, parent, data.name)
         IN  [resp |-> Response(201, JsonBody(ItemDoc(parent \o <<name>>))),
              drive |-> drv \cup {parent \o <<name>>}]

-----------------------------------------------------------------------------
(* GraphClient.create_folder_in_library *)

\* current_path after the segment part
NextCurrentPath(cur, part) ==
    IF cur # << >> THEN cur \o <<"/", part>> ELSE <<part>>

\* the endpoint of the create request for parts[i] (i counted from 0)
CreateEndpoint(parts, i) ==
    IF i > 0
    THEN ChildrenEndpoint(JoinSlash(SubSeq(parts, 1, i)))
    ELSE RootChildrenEndpoint

\* the folder a create endpoint names: the root, or the item at parent_path
CreateParent(parts, i) ==
    IF i > 0 THEN ItemPath(JoinSlash(SubSeq(parts, 1, i))) ELSE << >>

\* The loop over the segments from index i (counted from 0) on.  st holds
\* current_path, result, the drive, the requests sent and the lines logged;
\* env.probe[i + 1] and env.create[i + 1] say how the remote answers
\* the requests made for parts[i].
RECURSIVE FolderLoop(_, _, _, _)
FolderLoop(parts, i, st, env) ==
    IF i >= Len(parts) THEN st
    ELSE IF parts[i + 1] = "" THEN FolderLoop(parts, i + 1, st, env)
    ELSE
      LET cur == NextCurrentPath(st.current_path, parts[i + 1])
          probe == GetResult(RemoteGetItem(st.drive, cur, env.probe[i + 1]))
          probeReq == Request("GET", ItemEndpoint(cur), st.headers)
      IN  IF probe.raised = ""
          THEN FolderLoop(parts, i + 1,
                   [st EXCEPT !.current_path = cur, !.result = probe,
                              !.sent = @ \o <<probeReq>>], env)
          ELSE
            LET made == RemoteCreateChild(st.drive, CreateParent(parts, i),
                                          FolderData(parts[i + 1]),
                                          env.create[i + 1])
                post == PostResult(made.resp)
                postReq == Request("POST", CreateEndpoint(parts, i), st.headers)
                st2 == [st EXCEPT !.current_path = cur, !.result = post,
                                  !.drive = made.drive,
                                  !.sent = @ \o <<probeReq, postReq>>,
                                  !.log = @ \o probe.log \o post.log]
            IN  IF post.raised # "" THEN st2
                ELSE FolderLoop(parts, i + 1, st2, env)

NoResultYet ==
    [raised |-> "", message |-> << >>, value |-> << >>, parsed |-> FALSE,
     log |-> << >>]

\* create_folder_in_library(site_id, drive_id, folder_path): the result of the
\* last request (what the call returns or raises), the drive after the call
\* and the requests sent
CreateFolderInLibrary(drv, folder_path, headers, env) ==
    FolderLoop(SplitSlash(folder_path), 0,
               [current_path |-> << >>, result |-> NoResultYet, drive |-> drv,
                sent |-> << >>, log |-> << >>, headers |-> headers], env)

\* the folder paths given to the call
FolderPaths == { <<"A">>, <<"A", "/", "B">> }

\* the longest folder_path, in segments
MaxSegments == 2

\* the drive holds at most MaxFolders folders
MaxFolders == 4

\* how the remote answers the probe and the create request of each segment
\* the sequences of n answers
RECURSIVE Answers(_, _)
Answers(choices, n) ==
    IF n = 0 THEN {<< >>}
    ELSE { Append(a, c) : a \in Answers(choices, n - 1), c \in choices }

FolderEnvs(probes, creates) ==
    { [probe |-> p, create |-> c] :
        p \in Answers(probes, MaxSegments), c \in Answers(creates, MaxSegments) }

\* await graph_client.create_folder_in_library(site_id, drive_id, folder_path)
CreateFolderWith(paths, envs) ==
    /\ client.exists
    /\ Cardinality(drive) < MaxFolders
    /\ \E path \in paths, env \in envs :
        LET out == CreateFolderInLibrary(drive, path,
                                         RequestHeaders(client, ctx), env)
        IN  /\ ret' = [op |-> "create_folder_in_library", path |-> path,
                       out |-> out.result,
                       again |-> (ret.op = "create_folder_in_library"
                                     /\ ret.path = path),
                       answers |-> env, drive_before |-> drive]
            /\ drive' = out.drive
            /\ sent' = out.sent
            /\ log' = out.log
    /\ UNCHANGED <<lifespan, tasks, running, config, now, ctx, cacheFile, client>>

\* the call on a drive that accepts every create request under an existing
\* folder, and whose probes may fail for reasons other than a missing item
CreateFolder ==
    CreateFolderWith(FolderPaths,
                     FolderEnvs({"faithful", "error"}, {"faithful"}))

-----------------------------------------------------------------------------
(* Specifications *)

NoRet == [op |-> ""]

\* The shared context: a context as any caller may construct it (the tests
\* build contexts with a past, a future and no expiry), under a complete
\* configuration and under one without CLIENT_SECRET, the clock, refreshes
\* and a client built on the context.
InitCtx ==
    /\ config \in {ConfigWith(<<"secret">>, GoodSiteUrl),
                   ConfigWith(<< >>, GoodSiteUrl)}
    /\ now = 0
    /\ ctx \in { Context("test_token", e) :
                    e \in {None} \cup { At(t) : t \in 0..MaxTime } }
    /\ cacheFile = NoFile
    /\ client = NoClient
    /\ drive = {}
    /\ ret = NoRet
    /\ sent = << >>
    /\ log = << >>
    /\ tasks = NoTasks
    /\ running = 0
    /\ lifespan = NotStarted

NextCtx ==
    \/ Tick
    \/ CallIsTokenValid
    \/ CallHeaders
    \/ RefreshTokenIfNeeded
    \/ CreateClient
    \/ ClientGet

SpecCtx == InitCtx /\ [][NextCtx]_vars

\* get_auth_context under every configuration, cache file and answer of the
\* identity provider
InitAuth ==
    /\ config \in Configs
    /\ now = 0
    /\ ctx = Context("test_token", None)
    /\ cacheFile \in { NoFile, CacheBlob(FALSE, FALSE, ""),
                       CacheBlob(TRUE, TRUE, "tokA") }
    /\ client = NoClient
    /\ drive = {}
    /\ ret = NoRet
    /\ sent = << >>
    /\ log = << >>
    /\ tasks = NoTasks
    /\ running = 0
    /\ lifespan = NotStarted

NextAuth ==
    \/ Tick
    \/ CallGetAuthContext

SpecAuth == InitAuth /\ [][NextAuth]_vars

\* The verb primitives of a client on a context holding a valid token
InitVerbs ==
    /\ config = ConfigWith(<<"secret">>, GoodSiteUrl)
    /\ now = 0
    /\ ctx \in { Context(t, At(DefaultExpiresIn)) : t \in IssuedTokens }
    /\ cacheFile = NoFile
    /\ client = NewClient(ctx)
    /\ drive = {}
    /\ ret = NoRet
    /\ sent = << >>
    /\ log = << >>
    /\ tasks = NoTasks
    /\ running = 0
    /\ lifespan = NotStarted

NextVerbs ==
    \/ DoGet
    \/ DoPost
    \/ DoPatch
    \/ DoDelete
    \/ DoUpload

SpecVerbs == InitVerbs /\ [][NextVerbs]_vars

\* Folder creation on a drive in any state built from the folders A and A/B
InitFolder ==
    /\ config = ConfigWith(<<"secret">>, GoodSiteUrl)
    /\ now = 0
    /\ ctx = Context("tokA", At(DefaultExpiresIn))
    /\ cacheFile = NoFile
    /\ client = NewClient(ctx)
    /\ drive \in { {}, {<<"A">>}, {<<"A">>, <<"A", "B">>}, {<<"C">>} }
    /\ ret = NoRet
    /\ sent = << >>
    /\ log = << >>
    /\ tasks = NoTasks
    /\ running = 0
    /\ lifespan = NotStarted

NextFolder ==
    \/ CreateFolder

SpecFolder == InitFolder /\ [][NextFolder]_vars

-----------------------------------------------------------------------------
(* Claims about the shared context (SpecCtx) *)

\* is_token_valid has just been called and nothing has changed the context
\* since: a step that sets ret to its result
IsTokenValidStep == ret' # ret /\ ret'.op = "is_token_valid"

\* C1: is_token_valid() returns false when token_expiry is None or strictly
\* earlier than the clock, true when it is strictly later, and it changes no
\* field of the context.
C1_IsTokenValid ==
    /\ [](ret.op = "is_token_valid" =>
            LET e == ret.self.token_expiry
            IN  /\ e = None => ret.value = FALSE
                /\ (e # None /\ e[1] < ret.at) => ret.value = FALSE
                /\ (e # None /\ e[1] > ret.at) => ret.value = TRUE)
    /\ [][IsTokenValidStep => (ctx' = ctx /\ ret'.self = ctx /\ ret'.at = now)]_vars

\* is_token_valid was called on a context whose expiry is strictly in the past
C1_Witness ==
    /\ ret.op = "is_token_valid"
    /\ ret.self.token_expiry # None
    /\ ret.self.token_expiry[1] < ret.at
    /\ ret.value = FALSE

\* C2: headers is exactly {Authorization: "Bearer " + the context's current
\* access_token, Content-Type: "application/json"}, and every request of a
\* client carries the context's current token: once a refresh has replaced
\* the token, a client built before the refresh sends the new token and not
\* the one the context held when the client was built.
C2_Headers ==
    /\ ret.op = "headers" =>
        /\ ret.self = ctx
        /\ DOMAIN ret.value = {"Authorization", "Content-Type"}
        /\ ret.value["Authorization"] = "Bearer " \o ctx.access_token
        /\ ret.value["Content-Type"] = "application/json"
    /\ ret.op = "get" =>
        /\ Len(sent) = 1
        /\ sent[1].headers["Authorization"] = "Bearer " \o ctx.access_token
        /\ client.made_with # ctx.access_token =>
               sent[1].headers["Authorization"] # "Bearer " \o client.made_with
    /\ (ret.op = "refresh_token_if_needed" /\ ret.refreshed) =>
        ctx.access_token = ret.out.result.access_token

\* a client built before a refresh has sent a request after it
C2_Witness ==
    /\ ret.op = "get"
    /\ client.made_with = "test_token"
    /\ ctx.access_token = "tokA"
    /\ sent[1].headers["Authorization"] = "Bearer tokA"

\* the last operation was a refresh_token_if_needed, called on a context
\* whose token was valid / not valid at that time
RefreshDone == ret.op = "refresh_token_if_needed"
WasValid == IsTokenValid(ret.ctx_before, ret.at)

\* C16: refresh_token_if_needed runs the token acquisition (get_auth_context)
\* if and only if is_token_valid() is false at the time of the call.  When the
\* token is valid it calls the identity provider never, does not touch the
\* cache file and leaves access_token and token_expiry unchanged; when it is
\* not valid and the acquisition succeeds, both fields are those of the newly
\* acquired context.
C16_RefreshIffInvalid ==
    /\ [](RefreshDone =>
            /\ ("out" \in DOMAIN ret) <=> ~WasValid
            /\ (~WasValid /\ ValidateConfig(config) = << >>) =>
                   /\ ret.out.idp # << >>
                   /\ Contains(ret.out.idp, <<"acquire_token_for_client">>)
                          \/ Contains(ret.out.idp, <<"acquire_token_silent">>)
            /\ WasValid =>
                   /\ ctx = ret.ctx_before
                   /\ ~ret.refreshed /\ ret.raised = ""
            /\ (~WasValid /\ ret.out.raised = "") =>
                   /\ ret.refreshed
                   /\ ctx.access_token = ret.out.value[1].access_token
                   /\ ctx.token_expiry = ret.out.value[1].token_expiry
                   /\ ctx.access_token = ret.out.result.access_token
                   /\ IsTokenValid(ctx, ret.at))
    /\ [][(ret'.op = "refresh_token_if_needed" /\ IsTokenValid(ctx, now)) =>
            /\ ctx' = ctx
            /\ cacheFile' = cacheFile
            /\ drive' = drive]_vars

\* refresh_token_if_needed was called on a valid token and on an expired one:
\* here on an expired one, and it replaced both fields
C16_Witness ==
    /\ RefreshDone
    /\ ~WasValid
    /\ ret.ctx_before = Context("test_token", At(1))
    /\ ret.at = 2
    /\ ret.refreshed
    /\ ctx = Context("tokB", At(4))

-----------------------------------------------------------------------------
(* Claims about get_auth_context (SpecAuth) *)

\* the last operation was a get_auth_context whose token request (silent, then
\* client-credential) ended with a result that has no access_token
ExchangeFailed ==
    /\ ret.op = "get_auth_context"
    /\ ret.out.idp # << >>
    /\ "access_token" \notin DOMAIN ret.out.result

\* C3: when the result of the token request lacks access_token,
\* get_auth_context raises an error whose message carries the provider's
\* error code and description, and returns no context.
C3_AuthError ==
    ExchangeFailed =>
        /\ ret.out.raised = "Exception"
        /\ ret.out.value = << >>
        /\ Head(ret.out.message) = "Authentication failed: "
        /\ "error" \in DOMAIN ret.out.result =>
               Contains(ret.out.message, <<ret.out.result.error>>)
        /\ "error_description" \in DOMAIN ret.out.result =>
               Contains(ret.out.message, <<ret.out.result.error_description>>)

\* the identity provider answered with an error code and a description
C3_Witness ==
    /\ ExchangeFailed
    /\ ret.out.result = [error |-> "invalid_client",
                         error_description |-> "AADSTS70011: application not found"]
    /\ ret.out.raised = "Exception"

\* C4: when the token request fails, get_auth_context raises and does not
\* write the cache file: a file that did not exist still does not exist and an
\* existing one keeps its content.
C4_NoCacheWrite ==
    ExchangeFailed =>
        /\ ret.out.raised # ""
        /\ cacheFile = ret.file_before
        /\ ~Contains(ret.out.io, <<"write">>)
        /\ ret.file_before = NoFile => ~cacheFile.exists

\* the provider answered {"error": "invalid_client"} and there was no file
C4_Witness ==
    /\ ExchangeFailed
    /\ ret.out.result = [error |-> "invalid_client"]
    /\ ret.file_before = NoFile
    /\ cacheFile = NoFile

\* a call of get_auth_context that passed validate_config and so went on to
\* the token request
TokenRequested == ret.op = "get_auth_context" /\ ret.out.raised # "ValueError"

\* the cache loaded from the file the call found held an account
AccountInCache == LoadedCache(ret.file_before).account

SilentAttempted == Contains(ret.out.idp, <<"acquire_token_silent">>)

FullRequested == Contains(ret.out.idp, <<"acquire_token_for_client">>)

\* C20: in get_auth_context silent acquisition is attempted, and attempted
\* first, whenever the loaded cache yields an account (and only then); the
\* client-credential request is issued if and only if silent acquisition was
\* not attempted or produced no result; when silent acquisition produces a
\* token the call makes no client-credential request and uses that token.
C20_SilentFirst ==
    TokenRequested =>
        /\ SilentAttempted <=> AccountInCache
        /\ SilentAttempted => Head(ret.out.idp) = "acquire_token_silent"
        /\ FullRequested <=> (~SilentAttempted \/ ret.silent = NoResult)
        /\ ret.out.idp \in { <<"acquire_token_silent">>,
                             <<"acquire_token_silent", "acquire_token_for_client">>,
                             <<"acquire_token_for_client">> }
        /\ (SilentAttempted /\ TokenAcquired(ret.silent)) =>
               /\ ret.out.idp = <<"acquire_token_silent">>
               /\ ret.out.result = ret.silent
        /\ FullRequested => ret.out.result \in TokenResults \cup ErrorResults

\* the cache file held an account and silent acquisition produced a token:
\* the call returned a context with that token after one call to the
\* identity provider
C20_Witness ==
    /\ TokenRequested
    /\ AccountInCache
    /\ ret.silent = [access_token |-> "tokB", expires_in |-> 2]
    /\ ret.out.idp = <<"acquire_token_silent">>
    /\ ret.out.raised = ""
    /\ ret.out.value = <<Context("tokB", At(ret.at + 2))>>

\* the token request of the call ended with a result holding an access_token
ExchangeSucceeded == TokenRequested /\ TokenAcquired(ret.out.result)

\* the cache file the call found exists and does not deserialize
CacheReadFailed == ret.file_before.exists /\ ~ret.file_before.valid

\* opening the cache file for writing, or the write itself, failed
CacheWriteFailed == ret.write # "ok"

\* C21: cache persistence is best-effort: after a successful token exchange
\* get_auth_context returns a context holding the acquired access token and
\* the expiry computed from it and raises nothing, whether or not reading or
\* writing the cache file failed; a cache file that cannot be read does not
\* stop the call before the token request.
C21_BestEffortCache ==
    /\ ExchangeSucceeded =>
        /\ ret.out.raised = ""
        /\ ret.out.value = <<Context(ret.out.result.access_token,
                                     Expiry(ret.out.result, ret.at))>>
    /\ (TokenRequested /\ CacheReadFailed) =>
        /\ ret.out.idp = <<"acquire_token_for_client">>
        /\ ret.out.raised \in {"", "Exception"}

\* the file found did not deserialize and the write of the new one failed
\* half way; the call still returned the context
C21_Witness ==
    /\ ExchangeSucceeded
    /\ CacheReadFailed
    /\ ret.write = "write_fails"
    /\ cacheFile = TruncatedFile
    /\ ret.out.value = <<Context("tokA", At(ret.at + DefaultExpiresIn))>>

-----------------------------------------------------------------------------
(* Claims about the verb primitives (SpecVerbs) *)

\* the message carries the response's numeric status and its raw text
CarriesStatusAndBody(message, resp) ==
    /\ Contains(message, <<ToString(resp.status_code)>>)
    /\ Contains(message, resp.text)

\* C5 as stated: for every 2xx status carrying a JSON body, get returns that
\* body unmodified and does not raise.
C5_Get2xxAsStated ==
    (ret.op = "get" /\ ret.resp.status_code \in 200..299 /\ ret.resp.json # << >>) =>
        /\ ret.out.raised = ""
        /\ ret.out.value = ret.resp.json

\* C5, amended: for a response with status 200 carrying a JSON body, get
\* returns that body unmodified and does not raise.
C5_Get200 ==
    (ret.op = "get" /\ ret.resp.status_code = 200 /\ ret.resp.json # << >>) =>
        /\ ret.out.raised = ""
        /\ ret.out.value = ret.resp.json

\* get was answered 200 with a nested document and returned it
C5_Witness ==
    /\ ret.op = "get"
    /\ ret.resp.status_code = 200
    /\ ret.resp.json = <<[id |-> "new_item_id",
                          fields |-> [Title |-> "t", tags |-> <<"a", "b">>]]>>
    /\ ret.out.value = ret.resp.json

\* C6: for every status outside GET's accepted set, get raises an error whose
\* message contains the numeric status code and the raw response text, and
\* returns no value.
C6_GetRaises ==
    (ret.op = "get" /\ ret.resp.status_code # 200) =>
        /\ ret.out.raised = "Exception"
        /\ ret.out.value = << >>
        /\ CarriesStatusAndBody(ret.out.message, ret.resp)

\* get was answered 404 "Not Found"
C6_Witness ==
    /\ ret.op = "get"
    /\ ret.resp.status_code = 404
    /\ ret.resp.text = <<"Not", "Found">>
    /\ ret.out.raised = "Exception"
    /\ Contains(ret.out.message, <<"404">>)

\* C7: a PATCH, and an upload PUT, answered 204 returns {"status": "success"}
\* and does not parse the response body.
C7_NoContent ==
    (ret.op \in {"patch", "upload_file"} /\ ret.resp.status_code = 204) =>
        /\ ret.out.raised = ""
        /\ ret.out.value = <<[status |-> "success"]>>
        /\ ~ret.out.parsed

\* a PATCH was answered 204 with an empty body
C7_Witness ==
    /\ ret.op = "patch"
    /\ ret.resp.status_code = 204
    /\ ret.resp.text = << >>
    /\ ret.out.value = <<[status |-> "success"]>>

\* the accepted statuses of each verb, as the claim lists them
ClaimedAccepted(op) ==
    CASE op = "get" -> {200}
      [] op = "post" -> {200, 201}
      [] op \in {"patch", "delete", "upload_file"} -> {200, 201, 204}

VerbOps == {"get", "post", "patch", "delete", "upload_file"}

\* a verb was called and the response's body is a JSON document
VerbOnJson == ret.op \in VerbOps /\ ret.resp.json # << >>

C9_ClaimsDiagnostic ==
    (ret.op = "get" /\ ret.resp.status_code = 401) =>
        /\ ret.out.raised = "Exception"
        /\ Contains(ret.out.message, <<"401">>)
        /\ Contains(log, <<ret.out.message>>)
        /\ Contains(ret.resp.text, <<"scp", "or", "roles", "claim">>)
             <=> Contains(log, <<ClaimsLine>>)

\* get was answered 401 with a body holding the marker, and logged the
\* claims diagnostic
C9_Witness ==
    /\ ret.op = "get"
    /\ ret.resp.status_code = 401
    /\ Contains(ret.resp.text, <<"scp", "or", "roles", "claim">>)
    /\ Contains(log, <<ClaimsLine>>)

\* the HTTP method of each verb primitive
MethodOf(op) ==
    CASE op = "get" -> "GET"
      [] op = "post" -> "POST"
      [] op = "patch" -> "PATCH"
      [] op = "delete" -> "DELETE"
      [] op = "upload_file" -> "PUT"

\* C13: every verb primitive issues exactly one request per invocation
\* whatever the response status, with no second request after a failure, calls
\* the identity provider never, and leaves the context's access_token and
\* token_expiry and the client's base_url unchanged.
C13_OneRequest ==
    /\ [](ret.op \in VerbOps =>
            /\ Len(sent) = 1
            /\ sent[1].method = MethodOf(ret.op)
            /\ ret.idp = << >>)
    /\ [][ret'.op \in VerbOps =>
            /\ ctx'.access_token = ctx.access_token
            /\ ctx'.token_expiry = ctx.token_expiry
            /\ client'.base_url = client.base_url
            /\ cacheFile' = cacheFile]_vars

\* a POST was answered 401 and raised after its one request
C13_Witness ==
    /\ ret.op = "post"
    /\ ret.resp.status_code = 401
    /\ ret.out.raised = "Exception"
    /\ Len(sent) = 1
    /\ sent[1].method = "POST"

-----------------------------------------------------------------------------
(* Claims about folder creation (SpecFolder) *)

\* the last operation was the second of two calls in sequence with one path
SecondCall == ret.op = "create_folder_in_library" /\ ret.again

\* some segment of the path has a renamed duplicate beside it: a sibling
\* named after it with a number appended
RenamedDuplicate(path) ==
    LET segs == SplitSlash(path)
    IN  \E i \in 1..Len(segs), k \in 1..MaxFolders :
            (SubSeq(segs, 1, i - 1) \o <<segs[i] \o " " \o ToString(k)>>) \in drive

\* C10: create_folder_in_library is idempotent: the second of two calls in
\* sequence with the same path does not raise and leaves no renamed duplicate
\* ("A 1" next to "A") of any segment of the path.
C10_Idempotent ==
    SecondCall =>
        /\ ret.out.raised = ""
        /\ ~RenamedDuplicate(ret.path)
-----------------------------------------------------------------------------
(* Configuration validation (SpecConfig) *)

\* site URLs: the documented form, in mixed case, with an insecure scheme,
\* with the scheme in upper case, without a path, on another host, and on
\* another host with the SharePoint domain in the path
SiteUrls ==
    { GoodSiteUrl,
      <<"https://", "Contoso", ".SharePoint.com", "/", "sites", "/", "Eng">>,
      InsecureSiteUrl,
      <<"HTTPS://", "contoso", ".sharepoint.com", "/", "sites", "/", "Eng">>,
      <<"https://", "contoso", ".sharepoint.com">>,
      <<"https://", "contoso", ".example.com", "/", "sites", "/", "Eng">>,
      <<"https://", "files", ".example.com", "/", "x", ".sharepoint.com", "/">>,
      <<"http://", "files", ".example.com", "/", "sites", "/", "Eng">> }

\* every combination of set and unset required settings
ConfigInputs ==
    { [tenant_id |-> t, client_id |-> c, client_secret |-> s, site_url |-> u] :
        t \in {<< >>, <<"tenant">>}, c \in {<< >>, <<"client">>},
        s \in {<< >>, <<"secret">>}, u \in {<< >>} \cup SiteUrls }

\* validate_config()
CallValidateConfig ==
    /\ ret' = [op |-> "validate_config",
               raised |-> IF ValidateConfig(config) # << >> THEN "ValueError" ELSE "",
               message |-> ValidateConfig(config)]
    /\ sent' = << >>
    /\ log' = IF ValidateConfig(config) # << >>
              THEN <<ValidateConfig(config)>> ELSE << >>
    /\ UNCHANGED <<lifespan, tasks, running, config, now, ctx, cacheFile, client, drive>>

\* check_config()
CallCheckConfig ==
    /\ ret' = [op |-> "check_config", value |-> CheckConfig(config) = << >>,
               message |-> CheckConfig(config)]
    /\ sent' = << >>
    /\ log' = << >>
    /\ UNCHANGED <<lifespan, tasks, running, config, now, ctx, cacheFile, client, drive>>

InitConfig ==
    /\ config \in ConfigInputs
    /\ now = 0
    /\ ctx = Context("test_token", None)
    /\ cacheFile = NoFile
    /\ client = NoClient
    /\ drive = {}
    /\ ret = NoRet
    /\ sent = << >>
    /\ log = << >>
    /\ tasks = NoTasks
    /\ running = 0
    /\ lifespan = NotStarted

NextConfig ==
    \/ CallValidateConfig
    \/ CallCheckConfig

SpecConfig == InitConfig /\ [][NextConfig]_vars

\* a validation has run and this is whether it passed
Validated == ret.op \in {"validate_config", "check_config"}
Passed == ret.message = << >>

AllSet(cfg) == \A i \in DOMAIN RequiredKeys : cfg[RequiredKeys[i]] # << >>

\* the URL's host: the tokens between the scheme and the first slash
UrlHost(url) ==
    IF \E k \in 2..Len(url) : url[k] = "/"
    THEN LET k == CHOOSE j \in 2..Len(url) :
                      url[j] = "/" /\ \A m \in 2..(j - 1) : url[m] # "/"
         IN  SubSeq(url, 2, k - 1)
    ELSE SubSeq(url, 2, Len(url))

\* the form https://<tenant>.sharepoint.com/<path>: the host is a name under
\* sharepoint.com, in any case, and a path follows it
MatchesDomainPattern(url) ==
    /\ \E k \in 2..Len(url) : url[k] = "/"
    /\ Len(UrlHost(url)) >= 2
    /\ LowerToken(UrlHost(url)[Len(UrlHost(url))]) = ".sharepoint.com"

UsesHttps(url) == url # << >> /\ Head(url) = "https://"
UsesInsecureScheme(url) == url # << >> /\ Head(url) = "http://"

\* C11: validation passes when the four settings are set and the site URL
\* uses https and matches the SharePoint domain pattern, and fails for every
\* site URL that uses an insecure scheme or does not match the pattern.
C11_Validation ==
    Validated =>
        /\ (AllSet(config) /\ UsesHttps(config.site_url)
                /\ MatchesDomainPattern(config.site_url)) => Passed
        /\ UsesInsecureScheme(config.site_url) => ~Passed
        /\ ~MatchesDomainPattern(config.site_url) => ~Passed

-----------------------------------------------------------------------------
(* The tool-level operations *)

\* the endpoints the tools use
SiteInfoEndpoint == <<"sites/", "contoso.sharepoint.com", ":/sites/", "Eng">>
RootSitesEndpoint == <<"sites/", "root", "/sites">>
SearchEndpoint(site_id) == <<"sites/", site_id, "/search">>
ListsEndpoint(site_id) == <<"sites/", site_id, "/lists">>
ColumnsEndpoint(site_id, list_id) ==
    <<"sites/", site_id, "/lists/", list_id, "/columns">>
ListDriveEndpoint(site_id, list_id) ==
    <<"sites/", site_id, "/lists/", list_id, "/drive">>

\* the remote's answers to the requests of a tool
Created == Response(201, JsonBody([id |-> "item-1"]))
Found == Response(200, JsonBody([id |-> "item-1"]))
Forbidden == Response(403, [text |-> <<"accessDenied">>, json |-> << >>])
PostAnswers == {Created, Forbidden}
GetAnswers == {Found, ItemNotFound}

\* one call of a verb primitive: what it raised or returned, the request it
\* sent, and whether it failed
CallOnce(method, endpoint, headers, out) ==
    [raised |-> out.raised, message |-> out.message, value |-> out.value,
     sent |-> <<Request(method, endpoint, headers)>>,
     failed |-> IF out.raised # "" THEN 1 ELSE 0]

\* dict.get("id"): the id of a returned document, "None" without one
IdOf(value) ==
    IF value # << >> /\ "id" \in DOMAIN value[1] THEN value[1].id ELSE "None"

\* _get_intelligent_schema_for_purpose, for a purpose without a schema of its
\* own: the names of the columns
DefaultListColumns == <<"Title", "Description">>

\* _get_document_metadata_schema, for a document type without a schema of its
\* own: the names of the columns
DefaultDocumentColumns ==
    <<"DocumentType", "Status", "Author", "Department", "CreatedDate", "Keywords">>

\* _get_folder_structure_for_document_type, likewise: the folder paths
DefaultDocumentFolders ==
    <<"General", "Templates", "Working Documents", "Published", "Archive">>

\* the document columns and folders the model creates: the first MaxColumns
\* and the first MaxLibraryFolders of them
MaxColumns == 2
MaxLibraryFolders == 1

DocumentColumns == SubSeq(DefaultDocumentColumns, 1, MaxColumns)
DocumentFolders == SubSeq(DefaultDocumentFolders, 1, MaxLibraryFolders)

\* `for column in columns: try: await self.add_column_to_list(...) except
\* Exception: logger.warning(...)`, from column i on: the requests sent and
\* the number of failed ones
RECURSIVE AddColumns(_, _, _, _, _, _)
AddColumns(columns, i, site_id, list_id, headers, answers) ==
    IF i > Len(columns) THEN [sent |-> << >>, failed |-> 0]
    ELSE LET one == CallOnce("POST", ColumnsEndpoint(site_id, list_id), headers,
                             PostResult(answers[i]))
             rest == AddColumns(columns, i + 1, site_id, list_id, headers, answers)
         IN  [sent |-> one.sent \o rest.sent, failed |-> one.failed + rest.failed]

\* `for folder in folders: try: await self.create_folder_in_library(...)
\* except Exception: logger.warning(...)`, from folder i on, in a library
\* holding the folders drv
RECURSIVE AddFolders(_, _, _, _, _)
AddFolders(folders, i, drv, headers, answers) ==
    IF i > Len(folders) THEN [sent |-> << >>, failed |-> 0]
    ELSE LET one == CreateFolderInLibrary(drv, <<folders[i]>>, headers, answers[i])
             rest == AddFolders(folders, i + 1, one.drive, headers, answers)
         IN  [sent |-> one.sent \o rest.sent,
              failed |-> (IF one.result.raised # "" THEN 1 ELSE 0) + rest.failed]

\* GraphClient.get_site_info
GetSiteInfo(headers, env) ==
    CallOnce("GET", SiteInfoEndpoint, headers, GetResult(env.site))

\* GraphClient.create_site
CreateSite(headers, env) ==
    CallOnce("POST", RootSitesEndpoint, headers, PostResult(env.site))

\* the body of search_sharepoint: the site's id, then the search request
SearchSharePoint(headers, env) ==
    LET site == GetSiteInfo(headers, env)
        search == CallOnce("POST", SearchEndpoint(IdOf(site.value)), headers,
                           PostResult(env.search))
    IN  IF site.raised # "" THEN site
        ELSE [search EXCEPT !.sent = site.sent \o @]

\* GraphClient.create_intelligent_list: the list, then its columns, whose
\* failures are logged and dropped
CreateIntelligentList(headers, env) ==
    LET list == CallOnce("POST", ListsEndpoint(SiteId), headers,
                         PostResult(env.list))
        cols == AddColumns(DefaultListColumns, 1, SiteId, IdOf(list.value),
                           headers, env.columns)
    IN  IF list.raised # "" THEN list
        ELSE [list EXCEPT !.sent = @ \o cols.sent, !.failed = @ + cols.failed]

\* GraphClient.create_advanced_document_library: the library, its drive, its
\* columns, and its folders when the drive's id is known; only a failure of
\* the first request is raised
CreateAdvancedDocumentLibrary(headers, env) ==
    LET lib == CallOnce("POST", ListsEndpoint(SiteId), headers,
                        PostResult(env.list))
        list_id == IdOf(lib.value)
        drv == CallOnce("GET", ListDriveEndpoint(SiteId, list_id), headers,
                        GetResult(env.drive_info))
        drive_id == IF drv.raised = "" THEN IdOf(drv.value) ELSE "None"
        cols == AddColumns(DocumentColumns, 1, SiteId, list_id, headers,
                           env.columns)
        folders == IF drive_id # "None"
                   THEN AddFolders(DocumentFolders, 1, {}, headers, env.folders)
                   ELSE [sent |-> << >>, failed |-> 0]
    IN  IF lib.raised # "" THEN lib
        ELSE [lib EXCEPT !.sent = @ \o drv.sent \o cols.sent \o folders.sent,
                         !.failed = @ + drv.failed + cols.failed + folders.failed]

\* site_info_handler's own GET, outside the client: an error text for every
\* status but 200
SiteInfoHandlerGet(headers, env) ==
    LET resp == env.site
    IN  [raised |-> IF resp.status_code # 200 THEN "returned_error"
                    ELSE IF resp.json = << >> THEN "JSONDecodeError" ELSE "",
         message |-> <<"Error retrieving site info: ",
                       ToString(resp.status_code), " - ">> \o resp.text,
         value |-> IF resp.status_code = 200 THEN resp.json ELSE << >>,
         sent |-> <<Request("GET", SiteInfoEndpoint, headers)>>,
         failed |-> IF resp.status_code # 200 THEN 1 ELSE 0]

\* what the identity provider answers while a tool refreshes the token
ToolAuthEnvs ==
    { [silent |-> NoResult, full |-> f, write |-> "ok", write_test |-> "failed"] :
        f \in { [access_token |-> "tokB", expires_in |-> 2],
                [error |-> "invalid_client"] } }

\* the answers that matter to a call: the identity provider is asked only
\* when the token is not valid
AuthEnvsNow ==
    IF IsTokenValid(ctx, now)
    THEN {CHOOSE env \in ToolAuthEnvs : "error" \in DOMAIN env.full}
    ELSE ToolAuthEnvs

\* the sequences of n answers in which at most one differs from ok
RECURSIVE AnswersWithOne(_, _, _)
AnswersWithOne(ok, others, n) ==
    IF n = 0 THEN {<< >>}
    ELSE { Append(a, ok) : a \in AnswersWithOne(ok, others, n - 1) }
         \cup { Append([j \in 1..(n - 1) |-> ok], o) : o \in others }

\* `await refresh_token_if_needed(sp_ctx)` at the head of a tool
ToolRefresh(auth) == Refresh(ctx, config, cacheFile, drive, auth, now)

ToolHeadersBeforeRefresh(auth) == RequestHeaders(NewClient(ctx), ctx)

\* `graph_client = GraphClient(sp_ctx)` after the refresh: the headers of the
\* requests the tool's client sends
ToolHeaders(auth) ==
    RequestHeaders(NewClient(ToolRefresh(auth).ctx), ToolRefresh(auth).ctx)

\* f"Error ...: {str(e)}"
ErrorPrefix(kind) ==
    CASE kind = "get_site_info" -> <<"Error accessing SharePoint: ">>
      [] kind = "search_sharepoint" -> <<"Error searching SharePoint: ">>
      [] kind = "create_sharepoint_site" -> <<"Error creating SharePoint site: ">>
      [] kind = "create_intelligent_list" -> <<"Error creating intelligent list: ">>
      [] kind = "create_advanced_document_library" ->
             <<"Error creating advanced document library: ">>
      [] kind = "site_info_handler" -> << >>

\* A tool-level operation: the refresh, then, unless it raised, the client
\* and the body.  guarded says whether the refresh is inside the handler's
\* try block (the tools) or before it (site_info_handler).  shape is what the
\* caller gets: "success" with the data, "error" with an error text, or
\* "raised".
RunTool(kind, guarded, auth, body) ==
    LET r == ToolRefresh(auth)
        ran == r.raised = ""
        shape == IF ~ran THEN (IF guarded THEN "error" ELSE "raised")
                 ELSE IF body.raised # "" THEN "error" ELSE "success"
    IN  /\ ret' = [op |-> "tool", kind |-> kind, guarded |-> guarded,
                   at |-> now, ctx_before |-> ctx,
                   called |-> r.called, refresh_raised |-> r.raised,
                   idp |-> IF r.called THEN r.out.idp ELSE << >>,
                   io |-> IF r.called THEN r.out.io ELSE << >>,
                   events |-> <<"refresh">> \o
                       (IF ran THEN [j \in 1..Len(body.sent) |-> "request"]
                        ELSE << >>),
                   failed |-> IF ran THEN body.failed ELSE 0,
                   shape |-> shape,
                   value |-> IF shape = "success" THEN body.value ELSE << >>,
                   message |-> IF shape = "success" THEN << >>
                               ELSE ErrorPrefix(kind) \o
                                    (IF ran THEN body.message ELSE r.out.message)]
        /\ ctx' = r.ctx
        /\ cacheFile' = IF r.called THEN r.out.file ELSE cacheFile
        /\ drive' = IF r.called THEN r.out.drive ELSE drive
        /\ client' = IF ran THEN NewClient(r.ctx) ELSE client
        /\ sent' = IF ran THEN body.sent ELSE << >>
        /\ log' = << >>
        /\ UNCHANGED <<lifespan, tasks, running, config, now>>

\* get_site_info
ToolGetSiteInfo ==
    \E auth \in AuthEnvsNow, g \in GetAnswers :
        LET headers == ToolHeaders(auth)
            body == GetSiteInfo(headers, [site |-> g])
        IN  RunTool("get_site_info", TRUE, auth, body)

\* search_sharepoint
ToolSearchSharePoint ==
    \E auth \in AuthEnvsNow, g \in GetAnswers, p \in PostAnswers :
        LET headers == ToolHeaders(auth)
            body == SearchSharePoint(headers,
                                     [site |-> g, search |-> p])
        IN  RunTool("search_sharepoint", TRUE, auth, body)

\* create_sharepoint_site
ToolCreateSharePointSite ==
    \E auth \in AuthEnvsNow, p \in PostAnswers :
        LET headers == ToolHeaders(auth)
            body == CreateSite(headers, [site |-> p])
        IN  RunTool("create_sharepoint_site", TRUE, auth, body)

\* create_intelligent_list
ToolCreateIntelligentList ==
    \E auth \in AuthEnvsNow, p \in PostAnswers,
       cols \in Answers(PostAnswers, Len(DefaultListColumns)) :
        LET headers == ToolHeaders(auth)
            body == CreateIntelligentList(headers,
                                          [list |-> p, columns |-> cols])
        IN  RunTool("create_intelligent_list", TRUE, auth, body)

\* how the remote answers the probe and the create request of one folder:
\* as a library without the folder does, or with a failure of either request
FolderMissing == [probe |-> <<"faithful">>, create |-> <<"faithful">>]
FolderAnswers ==
    { [probe |-> <<p>>, create |-> <<c>>] :
        p \in {"faithful", "error"}, c \in {"faithful", "error"} }

\* create_advanced_document_library
ToolCreateAdvancedDocumentLibrary ==
    \E auth \in AuthEnvsNow, p \in PostAnswers, g \in GetAnswers,
       cols \in AnswersWithOne(Created, {Forbidden}, MaxColumns),
       fs \in AnswersWithOne(FolderMissing, FolderAnswers, MaxLibraryFolders) :
        LET headers == ToolHeaders(auth)
            body == CreateAdvancedDocumentLibrary(headers,
                        [list |-> p, drive_info |-> g, columns |-> cols,
                         folders |-> fs])
        IN  RunTool("create_advanced_document_library", TRUE, auth, body)

\* site_info_handler, the resource
ResourceSiteInfo ==
    \E auth \in AuthEnvsNow, g \in GetAnswers :
        LET headers == ToolHeaders(auth)
            body == SiteInfoHandlerGet(headers, [site |-> g])
        IN  RunTool("site_info_handler", FALSE, auth, body)

\* the context sharepoint_lifespan yields when the start-up authentication
\* failed: the placeholder token, valid for a short time
ErrorContext(t) == Context("error", At(t + 1))

\* The tools on the context the server holds after start-up: a context from a
\* successful authentication, or the error context (always so when the
\* configuration is invalid)
InitTools ==
    /\ config \in Configs
    /\ now = 0
    /\ ctx \in IF ValidateConfig(config) = << >>
               THEN {Context("tokA", At(2)), ErrorContext(0)}
               ELSE {ErrorContext(0)}
    /\ cacheFile = NoFile
    /\ client = NewClient(ctx)
    /\ drive = {}
    /\ ret = NoRet
    /\ sent = << >>
    /\ log = << >>
    /\ tasks = NoTasks
    /\ running = 0
    /\ lifespan = NotStarted

NextTools ==
    \/ Tick
    \/ ToolGetSiteInfo
    \/ ToolSearchSharePoint
    \/ ToolCreateSharePointSite
    \/ ToolCreateIntelligentList
    \/ ToolCreateAdvancedDocumentLibrary
    \/ ResourceSiteInfo

SpecTools == InitTools /\ [][NextTools]_vars

-----------------------------------------------------------------------------
(* Concurrent tool calls on the event loop *)

\* The handlers are coroutines of one event loop: a handler that has started
\* runs until it returns or until it awaits something that suspends it, and
\* only then can another handler run.  A handler's positions are: idle,
\* called (waiting to be started), check (`if not context.is_token_valid()`),
\* exchange (inside get_auth_context), assign_token and assign_expiry (before
\* each of the two assignments), request (before the client's request).

SuspendsDuringExchange(pc) == pc = "exchange"

SuspendsBetweenAssignments(pc) == pc = "assign_expiry"

\* whether a handler waiting at pc has given the event loop away: never,
\* because refresh_token_if_needed, get_auth_context and the client's verbs
\* await only coroutines that block (msal, requests, file I/O) and hold no
\* await between the two assignments
SuspendsAt(pc) == FALSE

\* the token the identity provider issues at time t, a new one each time it
\* is asked
TokenAt(t) == "tok" \o ToString(t)

\* what the identity provider and the file system answer to a handler's
\* get_auth_context at time t
TaskAuthEnvs(t) ==
    { [silent |-> NoResult, full |-> f, write |-> "ok", write_test |-> "failed"] :
        f \in { [access_token |-> TokenAt(t), expires_in |-> 2],
                [error |-> "invalid_client"] } }

\* the context the handlers share at first: its token expires at time 1
StartContext == Context("tok", At(1))

CanRun(t) == running \in {0, t}

\* the handler t moves to position pc
MoveTo(t, pc, new, seen) ==
    /\ tasks' = [tasks EXCEPT ![t] = [@ EXCEPT !.pc = pc, !.new = new,
                                               !.seen = seen]]
    /\ running' = IF pc = "idle" \/ SuspendsAt(pc) THEN 0 ELSE t

\* a tool call arrives for the handler t
TaskCall(t) ==
    /\ tasks[t].pc = "idle"
    /\ tasks' = [tasks EXCEPT ![t] = [pc |-> "called", new |-> << >>,
                                      seen |-> << >>, called |-> <<ctx>>]]
    /\ UNCHANGED <<lifespan, config, now, ctx, cacheFile, client, drive, ret, sent, log,
                   running>>

\* the event loop starts the handler
TaskStart(t) ==
    /\ tasks[t].pc = "called"
    /\ running = 0
    /\ MoveTo(t, "check", tasks[t].new, tasks[t].seen)
    /\ UNCHANGED <<lifespan, config, now, ctx, cacheFile, client, drive, ret, sent, log>>

\* `if not context.is_token_valid():`
TaskCheck(t) ==
    /\ tasks[t].pc = "check"
    /\ CanRun(t)
    /\ MoveTo(t, IF IsTokenValid(ctx, now) THEN "request" ELSE "exchange",
              tasks[t].new, <<ctx>>)
    /\ UNCHANGED <<lifespan, config, now, ctx, cacheFile, client, drive, ret, sent, log>>

\* `new_context = await get_auth_context()`: it returns or raises
TaskExchange(t) ==
    /\ tasks[t].pc = "exchange"
    /\ CanRun(t)
    /\ \E env \in TaskAuthEnvs(now) :
        LET out == GetAuthContext(config, cacheFile, drive, env, now)
        IN  /\ cacheFile' = out.file
            /\ drive' = out.drive
            /\ IF out.raised = ""
               THEN /\ MoveTo(t, "assign_token", out.value, tasks[t].seen)
                    /\ UNCHANGED <<ret, sent>>
               ELSE /\ MoveTo(t, "idle", << >>, tasks[t].seen)
                    /\ ret' = [op |-> "handler", task |-> t, shape |-> "error",
                               message |-> ErrorPrefix("get_site_info")
                                               \o out.message]
                    /\ sent' = << >>
    /\ UNCHANGED <<lifespan, config, now, ctx, client, log>>

\* `context.access_token = new_context.access_token`
TaskAssignToken(t) ==
    /\ tasks[t].pc = "assign_token"
    /\ CanRun(t)
    /\ ctx' = AssignToken(ctx, tasks[t].new[1])
    /\ MoveTo(t, "assign_expiry", tasks[t].new, tasks[t].seen)
    /\ UNCHANGED <<lifespan, config, now, cacheFile, client, drive, ret, sent, log>>

\* `context.token_expiry = new_context.token_expiry`
TaskAssignExpiry(t) ==
    /\ tasks[t].pc = "assign_expiry"
    /\ CanRun(t)
    /\ ctx' = AssignExpiry(ctx, tasks[t].new[1])
    /\ MoveTo(t, "request", tasks[t].new, tasks[t].seen)
    /\ UNCHANGED <<lifespan, config, now, cacheFile, client, drive, ret, sent, log>>

\* the client's request, with the headers of the context, and the return
TaskRequest(t) ==
    /\ tasks[t].pc = "request"
    /\ CanRun(t)
    /\ \E g \in GetAnswers :
        LET body == GetSiteInfo(RequestHeaders(NewClient(ctx), ctx), [site |-> g])
        IN  /\ sent' = body.sent
            /\ ret' = [op |-> "handler", task |-> t,
                       shape |-> IF body.raised = "" THEN "success" ELSE "error",
                       message |-> IF body.raised = "" THEN << >>
                                   ELSE ErrorPrefix("get_site_info") \o body.message]
    /\ MoveTo(t, "idle", tasks[t].new, <<ctx>>)
    /\ UNCHANGED <<lifespan, config, now, ctx, cacheFile, client, drive, log>>

InitTasks ==
    /\ config = ConfigWith(<<"secret">>, GoodSiteUrl)
    /\ now = 0
    /\ ctx = StartContext
    /\ cacheFile = NoFile
    /\ client = NewClient(ctx)
    /\ drive = {}
    /\ ret = NoRet
    /\ sent = << >>
    /\ log = << >>
    /\ tasks = NoTasks
    /\ running = 0
    /\ lifespan = NotStarted

NextTasks ==
    \/ Tick
    \/ \E t \in Tasks : TaskCall(t)
    \/ \E t \in Tasks : TaskStart(t)
    \/ \E t \in Tasks : TaskCheck(t)
    \/ \E t \in Tasks : TaskExchange(t)
    \/ \E t \in Tasks : TaskAssignToken(t)
    \/ \E t \in Tasks : TaskAssignExpiry(t)
    \/ \E t \in Tasks : TaskRequest(t)

SpecTasks == InitTasks /\ [][NextTasks]_vars

\* a context whose token and expiry belong together: the one the handlers
\* started with, or the one some token exchange produced
Paired(c) ==
    \/ c = StartContext
    \/ \E t \in 0..MaxTime : c = Context(TokenAt(t), At(t + 2))

\* C17: a refresh replaces the context's token and expiry atomically: under
\* every interleaving of the handlers, no handler reads a context that pairs
\* the new access_token with the old token_expiry or the old token with the
\* new expiry.
C17_AtomicRefresh ==
    \A t \in Tasks :
        /\ tasks[t].seen # << >> => Paired(tasks[t].seen[1])
        /\ (tasks[t].pc \in {"called", "check", "request"} /\ CanRun(t)
                /\ (tasks[t].pc = "called" => running = 0)) => Paired(ctx)

\* handler 2, called while handler 1 was refreshing, read the context after
\* the refresh and saw the token and the expiry handler 1 had acquired
C17_Witness ==
    /\ tasks[1].new # << >>
    /\ tasks[1].called # << >>
    /\ tasks[2].called # << >>
    /\ tasks[2].called[1] = tasks[1].called[1]
    /\ tasks[2].new = << >>
    /\ tasks[2].seen = tasks[1].new
    /\ tasks[2].seen[1] # StartContext

\* the handlers that are inside get_auth_context
InExchange == { t \in Tasks : tasks[t].pc = "exchange" }

\* C18: when several tool calls arrive for one expired context, at most one
\* token exchange is in flight at any time, and none is in flight while the
\* context holds a valid token; a handler starts one only when it finds the
\* token not valid, a refresh that completes leaves the newly acquired
\* context, and so the handlers that run after it, while that token is
\* valid, start no other exchange.
C18_SingleRefresh ==
    /\ [](Cardinality(InExchange) <= 1)
    /\ [](InExchange # {} => ~IsTokenValid(ctx, now))
    /\ [][\A t \in Tasks :
            /\ (tasks[t].pc = "check" /\ tasks'[t].pc = "exchange") =>
                   ~IsTokenValid(ctx, now)
            /\ (tasks[t].pc = "check" /\ tasks'[t].pc = "request") =>
                   IsTokenValid(ctx, now)
            /\ (tasks[t].pc = "assign_expiry" /\ tasks'[t].pc = "request") =>
                   ctx' = tasks[t].new[1]]_vars

\* two calls arrived for the context that expired at time 1, both before any
\* refresh; handler 1 refreshed it at time 2, handler 2 ran afterwards, found
\* the token valid and sent its request without an exchange of its own
C18_Witness ==
    /\ tasks[1].called = <<StartContext>>
    /\ tasks[2].called = <<StartContext>>
    /\ tasks[1].new = <<Context(TokenAt(2), At(4))>>
    /\ tasks[2].new = << >>
    /\ tasks[2].pc = "idle"
    /\ tasks[2].seen = tasks[1].new
    /\ ret.op = "handler" /\ ret.task = 2 /\ ret.shape = "success"

-----------------------------------------------------------------------------
(* Claims about the tool-level operations (SpecTools) *)

ToolDone == ret.op = "tool"

\* C14: every tool-level operation is all-or-nothing: it returns a
\* success-shaped result only if every request it issued succeeded; whenever
\* one of them failed it returns an error message or raises.
C14_AllOrNothing ==
    ToolDone =>
        /\ ret.shape = "success" => ret.failed = 0
        /\ ret.failed > 0 => ret.shape \in {"error", "raised"}

\* C15: in every tool-level operation the refresh step completes before the
\* operation's first request: the refresh is the first event of the
\* operation, every request carries the token the context holds after it, a
\* token that is valid at that time, and no request is issued when the refresh
\* raised.
C15_RefreshFirst ==
    ToolDone =>
        /\ ret.events[1] = "refresh"
        /\ \A j \in 2..Len(ret.events) : ret.events[j] = "request"
        /\ Len(sent) = Len(ret.events) - 1
        /\ ret.refresh_raised # "" => sent = << >>
        /\ sent # << >> =>
            /\ IsTokenValid(ctx, ret.at)
            /\ \A j \in 1..Len(sent) :
                 sent[j].headers["Authorization"] = "Bearer " \o ctx.access_token

\* a tool called with an expired token refreshed it and then sent its
\* requests with the new token
C15_Witness ==
    /\ ToolDone
    /\ ret.kind = "search_sharepoint"
    /\ ~IsTokenValid(ret.ctx_before, ret.at)
    /\ ret.called /\ ret.refresh_raised = ""
    /\ ctx.access_token = "tokB" /\ ret.ctx_before.access_token = "tokA"
    /\ Len(sent) = 2
    /\ sent[1].headers["Authorization"] = "Bearer tokB"

\* the last operation was a tool whose refresh failed
RefreshFailed == ToolDone /\ ret.refresh_raised # ""

\* C19: when a refresh fails, for a configuration error or a failed token
\* exchange, the context's access_token and token_expiry are what they were
\* before the call and the calling tool returns an error message without
\* issuing a request; the next operation runs the whole authentication flow
\* again, from the validation of the configuration on.
C19_RefreshFailure ==
    /\ [](RefreshFailed =>
            /\ ret.refresh_raised \in {"ValueError", "Exception"}
            /\ ctx = ret.ctx_before
            /\ sent = << >>
            /\ ret.value = << >>
            /\ ret.guarded =>
                /\ ret.shape = "error"
                /\ Len(ret.message) > Len(ErrorPrefix(ret.kind))
            /\ ~IsTokenValid(ctx, now))
    /\ [][(RefreshFailed /\ ret'.op = "tool") =>
            /\ ret'.called
            /\ ret'.refresh_raised = "ValueError" \/ ret'.idp # << >>
            /\ (ret'.refresh_raised # "ValueError" /\ cacheFile.exists) =>
                   Head(ret'.io) = "read"]_vars

\* a tool's refresh failed at the token exchange: the tool returned an error
\* message, sent nothing, and the context is the one it was called with
C19_Witness ==
    /\ ToolDone
    /\ ret.refresh_raised = "Exception"
    /\ ret.shape = "error"
    /\ ret.ctx_before = ErrorContext(0)
    /\ ctx = ErrorContext(0)
    /\ sent = << >>
-----------------------------------------------------------------------------
(* The tools after a failed start-up authentication (SpecTools) *)

\* the bearer tokens a successful token exchange can have returned
ExchangedBearers == { "Bearer " \o t : t \in IssuedTokens }

\* C25: every request sent by a tool-level operation carries a bearer token
\* that a successful token exchange returned: no request is sent with a
\* placeholder token the context reports as valid, not even after a failed
\* start-up authentication.
C25_RealTokenOnly ==
    ToolDone =>
        \A j \in 1..Len(sent) :
            sent[j].headers["Authorization"] \in ExchangedBearers

\* the server started with the error context and the last tool ran after
\* that context had expired
AfterStartupFailure ==
    /\ ToolDone
    /\ ret.ctx_before = ErrorContext(0)
    /\ ~IsTokenValid(ret.ctx_before, ret.at)

\* C26: after a failed start-up authentication the server recovers: once
\* the error context's short expiry has passed, the next tool-level
\* operation runs the whole authentication flow again, and if the identity
\* provider then answers with a token the shared context holds that token
\* and its expiry and the operation's requests carry it.
C26_Recovery ==
    AfterStartupFailure =>
        /\ ret.called
        /\ ret.refresh_raised = "ValueError" \/ ret.idp # << >>
        /\ ret.refresh_raised = "" =>
            /\ ctx = Context("tokB", At(ret.at + 2))
            /\ IsTokenValid(ctx, ret.at)
            /\ sent # << >>
            /\ \A j \in 1..Len(sent) :
                   sent[j].headers["Authorization"] = "Bearer tokB"
        /\ ret.refresh_raised # "" => (ctx = ErrorContext(0) /\ sent = << >>)

\* the first tool after the error context expired was answered by the
\* identity provider: the context holds the real token and the two requests
\* of the search carried it
C26_Witness ==
    /\ AfterStartupFailure
    /\ ret.kind = "search_sharepoint"
    /\ ret.at = 1
    /\ ret.idp = <<"acquire_token_for_client">>
    /\ ctx = Context("tokB", At(3))
    /\ Len(sent) = 2
    /\ sent[2].headers["Authorization"] = "Bearer tokB"

-----------------------------------------------------------------------------
(* Page operations *)

\* f"sites/{site_id}/pages"
PagesEndpoint(site_id) == <<"sites/", site_id, "/pages">>

\* f"sites/{site_id}/pages/{page_id}"
PageEndpoint(site_id, page_id) == PagesEndpoint(site_id) \o <<"/", page_id>>

\* f"sites/{site_id}/pages/{page_id}/publish"
PublishEndpoint(site_id, page_id) ==
    PageEndpoint(site_id, page_id) \o <<"/publish">>

\* f"sites/{site_id}/pages/{page_id}/setAsNewsPost"
SetAsNewsPostEndpoint(site_id, page_id) ==
    PageEndpoint(site_id, page_id) \o <<"/setAsNewsPost">>

\* what the remote answers to the PATCH of a page
PatchAnswers == {Found, Response(204, EmptyBody), Forbidden}

ThenRegardless(first, second) ==
    [raised |-> IF first.raised # "" THEN first.raised ELSE second.raised,
     message |-> IF first.raised # "" THEN first.message ELSE second.message,
     value |-> second.value,
     sent |-> first.sent \o second.sent,
     failed |-> first.failed + second.failed]

\* `await first` followed by `await second`: an exception of the first leaves
\* the coroutine before the second is called
Then(first, second) ==
    IF first.raised # "" THEN first
    ELSE [raised |-> second.raised, message |-> second.message,
          value |-> second.value, sent |-> first.sent \o second.sent,
          failed |-> first.failed + second.failed]

\* GraphClient.create_modern_page
CreateModernPage(headers, answer) ==
    CallOnce("POST", PagesEndpoint(SiteId), headers, PostResult(answer))

\* GraphClient.update_page
UpdatePage(headers, page_id, answer) ==
    CallOnce("PATCH", PageEndpoint(SiteId, page_id), headers, PatchResult(answer))

\* GraphClient.publish_page
PublishPage(headers, page_id, answer) ==
    CallOnce("POST", PublishEndpoint(SiteId, page_id), headers,
             PostResult(answer))

\* the setAsNewsPost request of create_news_post
SetAsNewsPost(headers, page_id, answer) ==
    CallOnce("POST", SetAsNewsPostEndpoint(SiteId, page_id), headers,
             PostResult(answer))

\* the body of the create_modern_page tool: create, update, publish
ModernPageBody(headers, answers) ==
    LET page == CreateModernPage(headers, answers[1])
        page_id == IdOf(page.value)
    IN  Then(Then(page, UpdatePage(headers, page_id, answers[2])),
             PublishPage(headers, page_id, answers[3]))

\* GraphClient.create_news_post: create, update, publish, setAsNewsPost
CreateNewsPost(headers, answers) ==
    LET page == CreateModernPage(headers, answers[1])
        page_id == IdOf(page.value)
    IN  Then(Then(Then(page, UpdatePage(headers, page_id, answers[2])),
                  PublishPage(headers, page_id, answers[3])),
             SetAsNewsPost(headers, page_id, answers[4]))

\* the answers of the remote to the requests of a page operation, in order
PageAnswers(n) ==
    { <<a1, a2, a3, a4>> : a1 \in PostAnswers, a2 \in PatchAnswers,
                           a3 \in PostAnswers,
                           a4 \in IF n = 4 THEN PostAnswers ELSE {Created} }

\* a page tool: the refresh, the client, the body, and the text returned
PageTool(kind, prefix, auth, body, answers) ==
    LET r == ToolRefresh(auth)
        ran == r.raised = ""
        ok == ran /\ body.raised = ""
    IN  /\ ret' = [op |-> "page_tool", kind |-> kind, answers |-> answers,
                   ran |-> ran,
                   shape |-> IF ok THEN "success" ELSE "error",
                   message |-> IF ok THEN << >>
                               ELSE prefix \o (IF ran THEN body.message
                                               ELSE r.out.message)]
        /\ ctx' = r.ctx
        /\ cacheFile' = IF r.called THEN r.out.file ELSE cacheFile
        /\ drive' = IF r.called THEN r.out.drive ELSE drive
        /\ client' = IF ran THEN NewClient(r.ctx) ELSE client
        /\ sent' = IF ran THEN body.sent ELSE << >>
        /\ log' = << >>
        /\ UNCHANGED <<lifespan, tasks, running, config, now>>

\* the create_modern_page tool
ToolCreateModernPage ==
    \E auth \in AuthEnvsNow, answers \in PageAnswers(3) :
        PageTool("create_modern_page", <<"Error creating modern page: ">>,
                 auth, ModernPageBody(ToolHeaders(auth), answers), answers)

\* the create_news_post tool
ToolCreateNewsPost ==
    \E auth \in AuthEnvsNow, answers \in PageAnswers(4) :
        PageTool("create_news_post", <<"Error creating news post: ">>,
                 auth, CreateNewsPost(ToolHeaders(auth), answers), answers)

NextPages ==
    \/ Tick
    \/ ToolCreateModernPage
    \/ ToolCreateNewsPost

SpecPages == InitTools /\ [][NextPages]_vars

\* the steps of a page operation, in order: method and endpoint
PageSteps(kind) ==
    <<[method |-> "POST", endpoint |-> PagesEndpoint(SiteId)],
      [method |-> "PATCH", endpoint |-> PageEndpoint(SiteId, "item-1")],
      [method |-> "POST", endpoint |-> PublishEndpoint(SiteId, "item-1")]>>
        \o (IF kind = "create_news_post"
            THEN <<[method |-> "POST",
                    endpoint |-> SetAsNewsPostEndpoint(SiteId, "item-1")]>>
            ELSE << >>)

\* the remote accepted the request of step i
StepSucceeded(i) ==
    ret.answers[i].status_code \in (IF i = 2 THEN PatchAccepted ELSE PostAccepted)

\* C29: page operations are strictly sequential: in create_news_post and in
\* the create_modern_page tool the page is created first, the update is sent
\* only after the creation succeeded, publish only after the update
\* succeeded and (for news posts) setAsNewsPost only after publish
\* succeeded; a failure at any step stops the sequence, so no later request
\* is sent, and the tool returns an error.
C29_PagesSequential ==
    (ret.op = "page_tool" /\ ret.ran) =>
        LET steps == PageSteps(ret.kind)
        IN  /\ sent # << >>
            /\ Len(sent) <= Len(steps)
            /\ \A i \in 1..Len(sent) :
                   /\ sent[i].method = steps[i].method
                   /\ sent[i].url = Url(steps[i].endpoint)
            /\ \A i \in 1..Len(steps) :
                   (i <= Len(sent)) <=> (\A j \in 1..(i - 1) : StepSucceeded(j))
            /\ (ret.shape = "success")
                   <=> (\A i \in 1..Len(steps) : StepSucceeded(i))

\* a news post whose page was created and updated and whose publish was
\* refused: three requests were sent, setAsNewsPost was not
C29_Witness ==
    /\ ret.op = "page_tool" /\ ret.ran
    /\ ret.kind = "create_news_post"
    /\ ret.answers = <<Created, Response(204, EmptyBody), Forbidden, Created>>
    /\ Len(sent) = 3
    /\ sent[3].url = Url(PublishEndpoint(SiteId, "item-1"))
    /\ ret.shape = "error"

-----------------------------------------------------------------------------
(* create_folder_in_library on any folder path *)

\* folder paths as callers may write them: plain, with a leading slash, with
\* a trailing slash and with a doubled slash
AnyFolderPaths ==
    { <<"A">>, <<"A", "/", "B">>, <<"/", "A">>, <<"A", "/">>,
      <<"A", "/", "/", "B">>, <<"/", "A", "/", "B">> }

\* the most parts folder_path.split('/') gives for these paths
MaxParts == 3

\* how the remote answers the probe and the create request of each part
AnyPathEnvs ==
    { [probe |-> p, create |-> c] :
        p \in Answers({"faithful", "error"}, MaxParts),
        c \in Answers({"faithful"}, MaxParts) }

\* await graph_client.create_folder_in_library(site_id, drive_id, folder_path)
CreateFolderAnyPath == CreateFolderWith(AnyFolderPaths, AnyPathEnvs)

InitPaths ==
    /\ config = ConfigWith(<<"secret">>, GoodSiteUrl)
    /\ now = 0
    /\ ctx = Context("tokA", At(DefaultExpiresIn))
    /\ cacheFile = NoFile
    /\ client = NewClient(ctx)
    /\ drive \in { {}, {<<"A">>}, {<<"A">>, <<"A", "B">>} }
    /\ ret = NoRet
    /\ sent = << >>
    /\ log = << >>
    /\ tasks = NoTasks
    /\ running = 0
    /\ lifespan = NotStarted

NextPaths ==
    \/ CreateFolderAnyPath

SpecPaths == InitPaths /\ [][NextPaths]_vars

\* the non-empty segments of the call's path, in order
Segments == SelectSeq(SplitSlash(ret.path), LAMBDA part : part # "")

\* the path built from the first k non-empty segments
SegmentPrefix(k) == JoinSlash(SubSeq(Segments, 1, k))

\* the number of probes among the first j requests of the call
RECURSIVE ProbesUpTo(_)
ProbesUpTo(j) ==
    IF j = 0 THEN 0
    ELSE ProbesUpTo(j - 1) + (IF sent[j].method = "GET" THEN 1 ELSE 0)

\* C28: in create_folder_in_library, for every folder path (with a leading
\* slash, a trailing slash or doubled slashes too) the non-empty segments
\* are processed in order, parent before child: the k-th probe asks for the
\* path built from the first k non-empty segments, and the create request
\* that follows it is posted to the children of the folder built from the
\* k-1 segments before it, the root when there is none.
C28_ParentBeforeChild ==
    ret.op = "create_folder_in_library" =>
        \A j \in 1..Len(sent) :
            LET k == ProbesUpTo(j)
            IN  /\ k \in 1..Len(Segments)
                /\ sent[j].method = "GET" =>
                       sent[j].url = Url(ItemEndpoint(SegmentPrefix(k)))
                /\ sent[j].method = "POST" =>
                       /\ sent[j - 1].method = "GET"
                       /\ sent[j].url =
                              Url(IF k = 1 THEN RootChildrenEndpoint
                                  ELSE ChildrenEndpoint(SegmentPrefix(k - 1)))

-----------------------------------------------------------------------------
(* Authorization failures of the verb primitives (SpecVerbs) *)

\* a verb was answered 401 or 403
VerbUnauthorized ==
    ret.op \in VerbOps /\ ret.resp.status_code \in {401, 403}

\* C24: for every verb primitive (get, post, patch, delete, upload_file) a
\* 401 or 403 answer is logged as an authorization failure and, when its
\* body contains "scp or roles claim", the claims diagnostic is logged too;
\* the five verbs behave alike.
C24_AuthDiagnosticsAllVerbs ==
    VerbUnauthorized =>
        /\ ret.out.raised = "Exception"
        /\ Contains(log, <<AuthErrorLine>>)
        /\ Contains(ret.resp.text, ClaimsMarker)
             <=> Contains(log, <<ClaimsLine, ClaimsAdviceLine>>)

-----------------------------------------------------------------------------
(* get_auth_context under a configuration that does not validate *)

\* a required setting is missing or the site URL is malformed
ConfigRejected ==
    \/ ~AllSet(config)
    \/ ~UsesHttps(config.site_url)
    \/ LacksSharePointDomain(config.site_url)

\* C23: when a required setting is missing or the site URL is malformed,
\* get_auth_context raises the configuration error before any network call:
\* the call makes no request to the identity provider, no Graph request and
\* no read or write of the cache file.
C23_ConfigErrorFirst ==
    (ret.op = "get_auth_context" /\ ConfigRejected) =>
        /\ ret.out.raised = "ValueError"
        /\ Head(ret.out.message) \in {"Missing required configuration: ",
                                      "Invalid SharePoint site URL: "}
        /\ ret.out.value = << >>
        /\ ret.out.idp = << >>
        /\ ret.out.graph = << >>
        /\ ret.out.io = << >>
        /\ cacheFile = ret.file_before
        /\ drive = {}

\* CLIENT_SECRET is not set and a cache file with an account exists: the
\* call raised without reading it
C23_Witness ==
    /\ ret.op = "get_auth_context"
    /\ config = ConfigWith(<< >>, GoodSiteUrl)
    /\ ret.file_before = CacheBlob(TRUE, TRUE, "tokA")
    /\ ret.out.raised = "ValueError"
    /\ ret.out.message = <<"Missing required configuration: ", "client_secret">>

-----------------------------------------------------------------------------
(* get_auth_context and its diagnostics *)

\* what the token decode, the connection test and the write test may meet
\* after a token was acquired
DiagEnvs ==
    { [silent |-> NoResult,
       full |-> [access_token |-> "tokA", expires_in |-> 2],
       write |-> "ok", write_test |-> wt, decode |-> d, conn |-> c] :
        wt \in {"failed", "raises", "created_deleted", "created_left",
                "delete_raises"},
        d \in {"ok", "invalid_format", "raises"},
        c \in {"200", "403", "raises"} }

\* await get_auth_context(), with the diagnostics meeting env
CallGetAuthContextDiag ==
    \E env \in DiagEnvs :
        LET out == GetAuthContext(config, cacheFile, drive, env, now)
        IN  /\ ret' = [op |-> "get_auth_context", out |-> out, env |-> env,
                       at |-> now]
            /\ cacheFile' = out.file
            /\ drive' = out.drive
            /\ sent' = << >>
            /\ log' = << >>
            /\ UNCHANGED <<lifespan, tasks, running, config, now, ctx, client>>

\* await refresh_token_if_needed(context), with the diagnostics meeting env
RefreshDiag ==
    \E env \in DiagEnvs :
        LET r == Refresh(ctx, config, cacheFile, drive, env, now)
        IN  /\ r.called
            /\ ret' = [op |-> "refresh_token_if_needed", out |-> r.out,
                       env |-> env, at |-> now]
            /\ ctx' = r.ctx
            /\ cacheFile' = r.out.file
            /\ drive' = r.out.drive
            /\ sent' = << >>
            /\ log' = << >>
            /\ UNCHANGED <<lifespan, tasks, running, config, now, client>>

InitDiag ==
    /\ config = ConfigWith(<<"secret">>, GoodSiteUrl)
    /\ now = 0
    /\ ctx = Context("test_token", At(1))
    /\ cacheFile = NoFile
    /\ client = NoClient
    /\ drive = {}
    /\ ret = NoRet
    /\ sent = << >>
    /\ log = << >>
    /\ tasks = NoTasks
    /\ running = 0
    /\ lifespan = NotStarted

NextDiag ==
    \/ Tick
    \/ CallGetAuthContextDiag
    \/ RefreshDiag

SpecDiag == InitDiag /\ [][NextDiag]_vars

\* a call of get_auth_context, direct or by a refresh, that acquired a token
AcquiredWithDiagnostics ==
    /\ ret.op \in {"get_auth_context", "refresh_token_if_needed"}
    /\ TokenAcquired(ret.out.result)

\* C22: the diagnostics that follow the acquisition (token decode,
\* connection test, write test and its cleanup delete) never change the
\* outcome of get_auth_context: for every combination of their successes,
\* failures and exceptions the call does not raise and returns the context
\* made of the acquired token and the expiry computed from it.
C22_DiagnosticsHarmless ==
    AcquiredWithDiagnostics =>
        /\ ret.out.raised = ""
        /\ ret.out.value = <<Context(ret.env.full.access_token,
                                     At(ret.at + ret.env.full.expires_in))>>
        /\ ret.op = "refresh_token_if_needed" => ctx = ret.out.value[1]

\* the token did not decode, the connection test raised and the delete of
\* the write test raised; the call returned the context all the same
C22_Witness ==
    /\ AcquiredWithDiagnostics
    /\ ret.op = "get_auth_context"
    /\ ret.env.decode = "raises"
    /\ ret.env.conn = "raises"
    /\ ret.env.write_test = "delete_raises"
    /\ ret.out.value = <<Context("tokA", At(ret.at + 2))>>

\* C30: token acquisition leaves no residue on the remote site: after any
\* sequence of get_auth_context calls and refreshes every test folder the
\* write test created has been deleted, so the first document library holds
\* the folders it held before the calls (none, here).
C30_NoResidue == drive = {}

-----------------------------------------------------------------------------
(* sharepoint_lifespan *)

\* what the start-up authentication may meet
LifespanEnvs ==
    { env \in AuthEnvs : env.silent = NoResult /\ env.write_test = "failed" }

\* what the server body may raise while the generator is suspended at its
\* yield: an error of the server, or the cancellation of its task
BodyExceptions == {"Exception", "CancelledError"}

\* `except Exception as e:` catches the errors, not the BaseExceptions
\* (CancelledError, GeneratorExit)
ExceptExceptionCatches(exc) == exc = "Exception"

\* the generator run from its start to its first yield: the context of a
\* successful get_auth_context, or the error context when it raised
RunToFirstYield(l, out, t) ==
    IF out.raised = ""
    THEN [l EXCEPT !.pc = "yield_context", !.yields = Append(@, out.value[1])]
    ELSE [l EXCEPT !.pc = "yield_error", !.yields = Append(@, ErrorContext(t))]

\* the generator resumed at its yield without an exception: it leaves the
\* try statement through the finally block and ends
ResumeAtYield(l) == [l EXCEPT !.pc = "done", !.finally = @ + 1]

\* an exception thrown into the generator at its yield.  `yield context` is
\* inside the try block, so an error thrown there is caught by the except
\* clause, which yields the error context: the generator has not stopped and
\* the context manager raises RuntimeError.  Anything else, and anything
\* thrown at `yield error_context`, leaves through the finally block.
ThrowAtYield(l, exc, t) ==
    IF l.pc = "yield_context" /\ ExceptExceptionCatches(exc)
    THEN [l EXCEPT !.pc = "yield_error_again",
                   !.yields = Append(@, ErrorContext(t)),
                   !.raised = "RuntimeError"]
    ELSE [l EXCEPT !.pc = "done", !.finally = @ + 1, !.raised = exc]

\* the server enters the lifespan: `context = await get_auth_context()` and
\* the first yield
LifespanEnter ==
    /\ lifespan.pc = "created"
    /\ \E env \in LifespanEnvs :
        LET out == GetAuthContext(config, cacheFile, drive, env, now)
            l == RunToFirstYield(lifespan, out, now)
        IN  /\ lifespan' = l
            /\ ctx' = l.yields[1]
            /\ cacheFile' = out.file
            /\ drive' = out.drive
            /\ ret' = [op |-> "sharepoint_lifespan", out |-> out, at |-> now]
    /\ sent' = << >>
    /\ log' = << >>
    /\ UNCHANGED <<tasks, running, config, now, client>>

\* the server body ends and the context manager resumes the generator
LifespanExit ==
    /\ lifespan.pc \in {"yield_context", "yield_error"}
    /\ lifespan' = ResumeAtYield(lifespan)
    /\ UNCHANGED <<tasks, running, config, now, ctx, cacheFile, client, drive,
                   ret, sent, log>>

\* the server body raises and the context manager throws the exception into
\* the generator
LifespanBodyRaises ==
    /\ lifespan.pc \in {"yield_context", "yield_error"}
    /\ \E exc \in BodyExceptions :
        lifespan' = ThrowAtYield(lifespan, exc, now)
    /\ UNCHANGED <<tasks, running, config, now, ctx, cacheFile, client, drive,
                   ret, sent, log>>

\* the generator left suspended at its second yield is closed (by the
\* context manager or by the event loop's finalizer): GeneratorExit runs its
\* finally block
LifespanClose ==
    /\ lifespan.pc = "yield_error_again"
    /\ lifespan' = [lifespan EXCEPT !.pc = "done", !.finally = @ + 1]
    /\ UNCHANGED <<tasks, running, config, now, ctx, cacheFile, client, drive,
                   ret, sent, log>>

InitLifespan ==
    /\ config \in Configs
    /\ now = 0
    /\ ctx = Context("", None)
    /\ cacheFile \in {NoFile, CacheBlob(TRUE, TRUE, "tokA")}
    /\ client = NoClient
    /\ drive = {}
    /\ ret = NoRet
    /\ sent = << >>
    /\ log = << >>
    /\ tasks = NoTasks
    /\ running = 0
    /\ lifespan = NotStarted

NextLifespan ==
    \/ Tick
    \/ LifespanEnter
    \/ LifespanExit
    \/ LifespanBodyRaises
    \/ LifespanClose

SpecLifespan == InitLifespan /\ [][NextLifespan]_vars

\* C27: sharepoint_lifespan yields exactly one context per server lifetime
\* on every path (authentication succeeded, authentication failed, the
\* server body raised while the generator was suspended at the yield): it
\* never yields a second time after the first yield was resumed, and its
\* finally block runs exactly once.
C27_OneYield ==
    /\ lifespan.pc # "created" => Len(lifespan.yields) = 1
    /\ lifespan.finally <= 1
    /\ lifespan.pc = "done" => lifespan.finally = 1

=============================================================================
